---- MODULE Spec2Model ----
(***************************************************************************)
(* Model of football-prediction-bot.py (class FootballPredictionBot).      *)
(*                                                                         *)
(* Numbers.  Odds are integers in hundredths (1.85 is 185; 0 stands for a  *)
(* missing or falsy "odds" field).  Confidence, raw confidence, stability  *)
(* and the league factor are fixed-point integers in millionths (0.98 is   *)
(* 980000); a quotient is truncated at the sixth decimal.  The coupon      *)
(* product is computed exactly on little-endian base-100 digit sequences.  *)
(*                                                                         *)
(* Strings.  Team names are sequences of one-character strings so that     *)
(* strip() and len() are computed; league, market and outcome names are    *)
(* strings and the substring tests of the code are tabulated for the names *)
(* that occur in the modelled API data.                                    *)
(***************************************************************************)
EXTENDS Integers, Sequences, FiniteSets, TLC

VARIABLES
    pc,                    \* position of the single thread
    caller,                \* who called run_prediction_job: "startup" | "scheduled" | "none"
    registered,            \* schedule.every().day.at("07:00").do(...) has been executed
    due,                   \* the registered job's next_run time has been reached
    runs,                  \* number of run_prediction_job activations started so far
    active,                \* number of run_prediction_job activations not yet returned
    all_matches,           \* get_todays_matches: local all_matches
    league_idx,            \* get_todays_matches: number of league ids already handled
    selected_matches,      \* self.selected_matches
    match_idx,             \* generate_predictions: number of selected matches already handled
    used_prediction_types, \* generate_predictions: local used_prediction_types
    predictions,           \* self.predictions, an insertion-ordered dict: sequence of <<key, leg>>
    coupon_total_odds,     \* self.coupon_total_odds, in hundredths
    endpoint,              \* make_api_request: the endpoint of the call in progress
    attempt,               \* make_api_request: GET attempts made by the call in progress
    sleeps,                \* make_api_request: time.sleep(retry_delay) calls made by the call in progress
    response,              \* value returned by the make_api_request call that just ended
    league_log,            \* this run: the value each league request returned, in order
    odds_log,              \* this run: <<match id, value returned>> of each odds request, in order
    sent,                  \* this run: the messages posted to the chat channel, in order
    env,                   \* os.environ at the start of the process: name -> value
    rapidapi_host,         \* self.rapidapi_host
    error_msg              \* the names listed by the EnvironmentError __init__ raised, << >> if none

vars == <<pc, caller, registered, due, runs, active, all_matches, league_idx,
          selected_matches, match_idx, used_prediction_types, predictions,
          coupon_total_odds, endpoint, attempt, sleeps, response,
          league_log, odds_log, sent, env, rapidapi_host, error_msg>>

----------------------------------------------------------------------------
(* Bounds of the model *)

\* number of entries of self.league_ids that are polled
NumLeagues == 2
\* number of run_prediction_job activations explored
MaxRuns == 2

----------------------------------------------------------------------------
(* Program constants *)

min_odds == 110
max_odds == 1000
max_retries == 3
retry_delay == 2
min_team_name_length == 3
league_ids == <<1, 118, 148, 127, 110, 136, 251, 252, 253, 301, 302, 303, 304>>

invalid_team_names ==
    { <<"h","o","m","e">>, <<"a","w","a","y">>, <<"H","o","m","e">>, <<"A","w","a","y">>,
      <<"H","O","M","E">>, <<"A","W","A","Y">>, <<"1">>, <<"2">>, <<"X">> }

\* self.average_expected_odds
average_expected_odds(kind) ==
    CASE kind = "under_35_goals"      -> 185
      [] kind = "over_15_goals"       -> 107
      [] kind = "over_25_goals"       -> 132
      [] kind = "both_teams_to_score" -> 271
      [] kind = "win_home"            -> 190
      [] kind = "win_away"            -> 250
      [] kind = "double_chance_1X"    -> 140
      [] kind = "double_chance_X2"    -> 160

----------------------------------------------------------------------------
(* Generic helpers *)

Abs(x) == IF x < 0 THEN -x ELSE x
Min(a, b) == IF a <= b THEN a ELSE b
Max(a, b) == IF a >= b THEN a ELSE b
Range(s) == { s[i] : i \in 1..Len(s) }

\* list.sort(key=...) on a list of <<key, item>> pairs: ascending by key and stable
\* (an item is placed after every item already sorted whose key is <= its own)
RECURSIVE InsertStable(_, _)
InsertStable(sorted, x) ==
    IF sorted = <<>> THEN <<x>>
    ELSE IF x[1] < sorted[Len(sorted)][1]
         THEN Append(InsertStable(SubSeq(sorted, 1, Len(sorted) - 1), x), sorted[Len(sorted)])
         ELSE Append(sorted, x)

RECURSIVE StableSort(_)
StableSort(s) ==
    IF s = <<>> THEN <<>>
    ELSE InsertStable(StableSort(SubSeq(s, 1, Len(s) - 1)), s[Len(s)])

----------------------------------------------------------------------------
(* The clock of one run, in abstract time units: get_todays_matches computes
   now_timestamp and the bounds of today from datetime.now() *)

now_timestamp == 12
start_timestamp == 10
end_timestamp == 20

\* Lines 45 and 239-240: self.timezone is pytz.timezone('Africa/Brazzaville') and
\* the bounds are datetime(y, m, d, ...).replace(tzinfo=self.timezone).  replace
\* attaches the offset the pytz zone object carries by itself, the local mean time
\* of the zone's first period, not the +1:00 in force: +0:14 where the time zone
\* data of the build make Brazzaville a link to Lagos, +1:01 where they keep its
\* own history.  The bounds are then 46 minutes later than the local day, or one
\* minute earlier.
TimezoneBuilds == {"LMT+0:14", "LMT+1:01"}

\* the local day of now, in the abstract units of the clock, for the zone object tz:
\* 00:00:00 and 23:59:59 of the date of now at the offset in force
local_day_start(tz) == IF tz = "LMT+0:14" THEN start_timestamp - 1 ELSE start_timestamp + 1
local_day_end(tz) == IF tz = "LMT+0:14" THEN end_timestamp - 1 ELSE end_timestamp + 1

----------------------------------------------------------------------------
(* The data the odds API can serve *)

\* A value make_api_request returns.  kind: "None" (no attempt succeeded), "scalar"
\* (a 200 body that json.loads turns into a truthy value that is not a dict: a JSON
\* string, number or non-empty array; it has no .get) or "dict" (a JSON object).
\* status "absent" stands for a missing "status" key; data_type is the JSON type of
\* the "data" member ("list", "dict" or "other").
Body(kind, status, data_type, data) ==
    [kind |-> kind, status |-> status, data_type |-> data_type, data |-> data]
None == Body("None", "absent", "other", << >>)
Scalar == Body("scalar", "absent", "other", << >>)

Match(id, league, home, away, ts) ==
    [id |-> id, league |-> league, home_team |-> home, away_team |-> away, start_timestamp |-> ts]

\* a start_timestamp of -1 stands for JSON null (Python None)
m101 == Match(101, "Ghana Premier League", <<"K","o","t","o","k","o">>, <<"H","e","a","r","t","s">>, 15)
m102 == Match(102, "Kenya Premier League", <<"G","o","r">>, <<"T","u","s","k","e","r">>, 16)
m103 == Match(103, "Germany Bundesliga", <<"B","a","y","e","r","n">>, <<"M","a","i","n","z">>, 18)
m104 == Match(104, "France Ligue 1", <<"L","y","o","n">>, <<"N","i","c","e">>, 20)
m105 == Match(105, "Tunisia Ligue 1", <<"S","f","a","x">>, <<"E","S"," ","T","u","n","i","s">>, 13)
\* entries get_todays_matches rejects
x901 == Match(901, "Ghana Premier League", <<" ","H","o","m","e"," ">>, <<"A","d","u","a","n","a">>, 15)
x902 == Match(902, "Germany Bundesliga", <<"K","o","l","n">>, <<"B","o","n","n">>, 11)
x903 == Match(903, "France Ligue 1", <<"P","S","G">>, <<"O","M">>, 21)
x904 == Match(904, "Kenya Premier League", <<"U","l","i","n","z","i">>, <<"S","o","f","a">>, -1)
\* a day with three matches of low-scoring leagues and two of a high-scoring one
m501 == Match(501, "Ghana Premier League", <<"O","l","y","m","p","i","c","s">>, <<"D","w","a","r","f","s">>, 14)
m502 == Match(502, "Kenya Premier League", <<"B","a","n","d","a","r","i">>, <<"P","o","s","t","a">>, 15)
m503 == Match(503, "Tunisia Ligue 1", <<"M","o","n","a","s","t","i","r">>, <<"G","a","b","e","s">>, 16)
m504 == Match(504, "Germany Bundesliga", <<"L","e","i","p","z","i","g">>, <<"B","r","e","m","e","n">>, 17)
m505 == Match(505, "Germany Bundesliga", <<"F","r","e","i","b","u","r","g">>, <<"U","n","i","o","n">>, 18)

\* the "data" lists the API can answer for the league id at position i of league_ids
LeagueLists(i) ==
    CASE i = 1 -> { <<m101, x901, m102>>, <<m101>> }
      [] i = 2 -> { <<x902, m103, m104>>, <<m105, x903>>, <<x904>> }
      [] i = 3 -> { <<x903>> }
      [] OTHER -> { <<>> }

\* the 200 bodies the API can answer to /matches?...league_id=league_ids[i]
LeagueBodies(i) ==
    { Body("dict", "success", "list", l) : l \in LeagueLists(i) }
      \cup { Body("dict", "error", "list", l) : l \in LeagueLists(i) }
      \cup { Body("dict", "success", "other", << >>), Scalar }

Outcome(name, odds) == [name |-> name, odds |-> odds]
Market(name, outcomes) == [name |-> name, outcomes |-> outcomes]

\* the markets ("data") of each match, keyed by market id
Markets(id) ==
    CASE id = 101 ->
           ("17" :> Market("Total", << Outcome("Over 1.5", 125), Outcome("Under 3.5", 185),
                                      Outcome("Under 2.5", 240) >>))
           @@ ("19" :> Market("Total", << Outcome("Yes", 200) >>))
      [] id = 102 ->
           ("17" :> Market("Total", << Outcome("Under 3.5", 1000), Outcome("Under 3.5", 0),
                                      Outcome("Over 1.5", 109) >>))
           @@ ("99" :> Market("Asian Total", << Outcome("Under 3.5", 110), Outcome("Under 3.5", 1001) >>))
      [] id = 103 ->
           ("1" :> Market("1x2", << Outcome("Home", 210), Outcome("Draw", 300), Outcome("Away", 340) >>))
           @@ ("8" :> Market("Double Chance", << Outcome("Home or X", 140), Outcome("Home or Away", 130),
                                                Outcome("Away or X", 160) >>))
           @@ ("17" :> Market("Total", << Outcome("Over 1.5", 105), Outcome("Over 1.5", 120),
                                         Outcome("Over 2.5", 132), Outcome("Under 3.5", 150) >>))
           @@ ("19" :> Market("Both Teams To Score", << Outcome("Yes", 271), Outcome("No", 140) >>))
      [] id = 104 ->
           ("1" :> Market("1x2", << Outcome("Home", 120), Outcome("Draw", 600), Outcome("Away", 1000) >>))
           @@ ("17" :> Market("Total", << Outcome("Under 3.5", 1000) >>))
           @@ ("19" :> Market("Both Teams To Score", << Outcome("Yes", 1050), Outcome("No", 101) >>))
      [] id = 105 ->
           ("1" :> Market("1x2", << Outcome("Home", 190), Outcome("Draw", 320), Outcome("Away", 250) >>))
           @@ ("8" :> Market("Double Chance", << Outcome("1X", 125), Outcome("X2", 150) >>))
      [] id = 501 -> ("17" :> Market("Total", << Outcome("Under 3.5", 185) >>))
      [] id = 502 -> ("17" :> Market("Total", << Outcome("Over 1.5", 125) >>))
      [] id \in {503, 504} ->
           ("17" :> Market("Total", << Outcome("Over 1.5", 110), Outcome("Under 3.5", 400) >>))
      [] id = 505 -> ("17" :> Market("Total", << Outcome("Over 2.5", 130), Outcome("Over 1.5", 115) >>))
      [] OTHER -> << >>

\* the 200 bodies the API can answer to /matches/<id>/markets
OddsBodies(id) ==
    { Body("dict", "success", "dict", Markets(id)), Body("dict", "success", "dict", << >>),
      Body("dict", "error", "dict", Markets(id)), Scalar }

----------------------------------------------------------------------------
(* Substring tests of the code, tabulated for the names of the modelled data
   (each test is applied to the lower-cased name) *)

\* any(league in league_name.lower() for league in self.low_scoring_leagues)
is_low_scoring_league(league_name) ==
    league_name \in {"Ghana Premier League", "Kenya Premier League", "Tunisia Ligue 1"}

\* any(league in league_name.lower() for league in self.high_scoring_leagues)
is_high_scoring_league(league_name) ==
    league_name \in {"Germany Bundesliga"}

get_league_scoring_profile(league_name) ==
    IF is_low_scoring_league(league_name) THEN "low"
    ELSE IF is_high_scoring_league(league_name) THEN "high"
    ELSE "medium"

MarketIs1x2(n) == n \in {"1x2", "1X2"}                      \* name.lower() == "1x2"
MarketHasTotal(n) == n \in {"Total", "Asian Total"}         \* "total" in name.lower()
MarketHasAsianTotal(n) == n \in {"Asian Total"}             \* "asian total" in name.lower()
MarketHasBtts(n) == n \in {"Both Teams To Score"}           \* "both teams to score" in name.lower()
MarketHasDoubleChance(n) == n \in {"Double Chance"}         \* "double chance" in name.lower()
NameIsUnder35(n) == n \in {"Under 3.5"}                     \* "under" in name and "3.5" in name
NameIsOver15(n) == n \in {"Over 1.5"}                       \* "over" in name and "1.5" in name
NameIsOver25(n) == n \in {"Over 2.5"}                       \* "over" in name and "2.5" in name
NameHasYes(n) == n \in {"Yes"}                              \* "yes" in name
NameHasHome(n) == n \in {"Home", "Home or X", "Home or Away"}   \* "home" in name
NameHasDraw(n) == n \in {"Draw"}                                \* "draw" in name
NameHasAway(n) == n \in {"Away", "Away or X", "Home or Away"}   \* "away" in name
NameIs1X(n) == n \in {"Home or X", "1X"}     \* "home or x" in name or "1x" in name.replace(" ", "")
NameIsX2(n) == n \in {"Away or X", "X2"}     \* "away or x" in name or "x2" in name.replace(" ", "")

----------------------------------------------------------------------------
(* Team names *)

RECURSIVE lstrip(_)
lstrip(s) == IF s # <<>> /\ s[1] = " " THEN lstrip(Tail(s)) ELSE s
RECURSIVE rstrip(_)
rstrip(s) == IF s # <<>> /\ s[Len(s)] = " " THEN rstrip(SubSeq(s, 1, Len(s) - 1)) ELSE s
strip(s) == rstrip(lstrip(s))

is_valid_team_name(team_name) ==
    /\ team_name # <<>>
    /\ strip(team_name) \notin invalid_team_names
    /\ Len(strip(team_name)) >= min_team_name_length

----------------------------------------------------------------------------
(* The rule functions *)

\* the "no candidate" value (Python None) of a rule function
NoPrediction == [type |-> "None", odds |-> 0, raw_confidence |-> 0, stability |-> 0, confidence |-> 0]

Prediction(type, odds, raw, stab) ==
    [type |-> type, odds |-> odds, raw_confidence |-> raw, stability |-> stab, confidence |-> 0]

\* a faulty variant of InRange: the upper limit is not tested
InRange_NoUpper(odds) == min_odds <= odds

\* self.min_odds <= odds <= self.max_odds
InRange(odds) == min_odds <= odds /\ odds <= max_odds

\* get_teams_basic_odds: the last 1x2 outcome of each kind with truthy odds wins
RECURSIVE BasicOddsOf(_, _)
BasicOddsOf(outcomes, acc) ==
    IF outcomes = <<>> THEN acc
    ELSE LET o == Head(outcomes)
             next == IF NameHasHome(o.name) /\ o.odds # 0 THEN [acc EXCEPT !.home = o.odds]
                     ELSE IF NameHasDraw(o.name) /\ o.odds # 0 THEN [acc EXCEPT !.draw = o.odds]
                     ELSE IF NameHasAway(o.name) /\ o.odds # 0 THEN [acc EXCEPT !.away = o.odds]
                     ELSE acc
         IN BasicOddsOf(Tail(outcomes), next)

get_teams_basic_odds(markets) ==
    IF "1" \in DOMAIN markets /\ MarketIs1x2(markets["1"].name)
    THEN BasicOddsOf(markets["1"].outcomes, [home |-> 0, draw |-> 0, away |-> 0])
    ELSE [home |-> 0, draw |-> 0, away |-> 0]

\* the test a rule applies to the name of a market
MarketNameTest(test, n) ==
    CASE test = "total" -> MarketHasTotal(n)
      [] test = "asian total" -> MarketHasAsianTotal(n)
      [] test = "both teams to score" -> MarketHasBtts(n)
      [] test = "double chance" -> MarketHasDoubleChance(n)

\* the test a rule applies to the name of an outcome
OutcomeNameTest(test, n) ==
    CASE test = "under 3.5" -> NameIsUnder35(n)
      [] test = "over 1.5" -> NameIsOver15(n)
      [] test = "over 2.5" -> NameIsOver25(n)
      [] test = "yes" -> NameHasYes(n)
      [] test = "1x" -> NameIs1X(n)
      [] test = "x2" -> NameIsX2(n)

\* the outcomes one market contributes to found_odds
FoundOdds(markets, market_id, market_test, name_test) ==
    IF market_id \in DOMAIN markets /\ MarketNameTest(market_test, markets[market_id].name)
    THEN SelectSeq(markets[market_id].outcomes,
                   LAMBDA o : OutcomeNameTest(name_test, o.name) /\ o.odds # 0 /\ InRange(o.odds))
    ELSE <<>>

\* Odds are Python floats.  The float of the decimal x = odds / 100, with
\* 2^b <= x < 2^(b+1), is x rounded to a multiple of 2^(b-52), half way to even.
Binade(odds) == IF odds < 200 THEN 0 ELSE IF odds < 400 THEN 1 ELSE IF odds < 800 THEN 2 ELSE 3

\* 2^(52-b) modulo 200, for b = 0..3
Pow2Mod200(b) == <<96, 48, 24, 112>>[b + 1]

\* float(x) - x in units of 2^(b-52) / 100: with N = odds * 2^(52-b), the quotient
\* N / 100 is rounded to an integer, and N modulo 200 gives its remainder and the
\* parity of its integer part
FloatError(odds) ==
    LET n == ((odds % 200) * Pow2Mod200(Binade(odds))) % 200
        r == n % 100
        odd == n >= 100
    IN IF r < 50 \/ (r = 50 /\ ~odd) THEN -r ELSE 100 - r

\* float(x) - x in units of 2^-52 / 100
FloatErrorUnits(odds) == FloatError(odds) * <<1, 2, 4, 8>>[Binade(odds) + 1]

\* abs(odds - average) of the floats, as an integer that orders the keys as the
\* floats do: the distance in hundredths first, then the rounding errors of the two
\* floats (two odds at the same distance in hundredths are less than 2.0 from the
\* average, where the float subtraction is exact)
FloatDistance(odds, average) ==
    LET fine == FloatErrorUnits(odds) - FloatErrorUnits(average)
    IN Abs(odds - average) * 10000 + (IF odds < average THEN -fine ELSE fine)

\* found_odds.sort(key=lambda x: abs(x["odds"] - average)); found_odds[0]["odds"]
BestOdds(found_odds, kind) ==
    LET keyed == [i \in 1..Len(found_odds) |->
                    <<FloatDistance(found_odds[i].odds, average_expected_odds(kind)), found_odds[i]>>]
    IN StableSort(keyed)[1][2].odds

\* 1.0 - ((odds - low) / (high - low)), clamped to [lo, hi]
OddsConfidence(odds, low, high, lo, hi) ==
    Max(lo, Min(hi, ((high - odds) * 1000000) \div (high - low)))

\* 1.0 - min(1.0, abs(odds - average) / average)
Stability(odds, kind) ==
    1000000 - Min(1000000, (Abs(odds - average_expected_odds(kind)) * 1000000)
                             \div average_expected_odds(kind))

\* the common tail of the goals and double-chance rules
CandidateAt(best_odds, kind, type, lo, hi) ==
    Prediction(type, best_odds,
               OddsConfidence(best_odds, min_odds, max_odds, lo, hi),
               Stability(best_odds, kind))

BestCandidate(found_odds, kind, type, lo, hi) ==
    IF found_odds # <<>>
    THEN CandidateAt(BestOdds(found_odds, kind), kind, type, lo, hi)
    ELSE NoPrediction

find_under_35_goals(markets) ==
    BestCandidate(FoundOdds(markets, "17", "total", "under 3.5")
                    \o FoundOdds(markets, "99", "asian total", "under 3.5"),
                  "under_35_goals", "-3.5 buts", 500000, 950000)

find_over_15_goals(markets) ==
    BestCandidate(FoundOdds(markets, "17", "total", "over 1.5"),
                  "over_15_goals", "+1.5 buts", 600000, 920000)

find_over_25_goals(markets) ==
    BestCandidate(FoundOdds(markets, "17", "total", "over 2.5"),
                  "over_25_goals", "+2.5 buts", 550000, 900000)

find_both_teams_to_score(markets) ==
    BestCandidate(FoundOdds(markets, "19", "both teams to score", "yes"),
                  "both_teams_to_score", "Les 2 marquent", 600000, 900000)

find_win_home(markets, basic_odds) ==
    LET home_odds == basic_odds.home
    IN IF home_odds = 0 \/ home_odds < min_odds \/ home_odds > max_odds THEN NoPrediction
       ELSE IF home_odds < 130 \/ home_odds > 500 THEN NoPrediction
       ELSE Prediction("Victoire domicile", home_odds,
                       OddsConfidence(home_odds, min_odds, 500, 600000, 850000),
                       Stability(home_odds, "win_home"))

\* the label is "Victoire extérieur" in the source
find_win_away(markets, basic_odds) ==
    LET away_odds == basic_odds.away
    IN IF away_odds = 0 \/ away_odds < min_odds \/ away_odds > max_odds THEN NoPrediction
       ELSE IF away_odds < 130 \/ away_odds > 500 THEN NoPrediction
       ELSE Prediction("Victoire exterieur", away_odds,
                       OddsConfidence(away_odds, min_odds, 500, 550000, 800000),
                       Stability(away_odds, "win_away"))

find_double_chance_1X(markets, basic_odds) ==
    LET home_odds == basic_odds.home
        draw_odds == basic_odds.draw
    IN IF home_odds = 0 \/ draw_odds = 0 THEN NoPrediction
       \* draw_odds <= home_odds * 1.5
       ELSE IF ~(200 <= home_odds /\ home_odds <= 500 /\ 2 * draw_odds <= 3 * home_odds) THEN NoPrediction
       ELSE BestCandidate(FoundOdds(markets, "8", "double chance", "1x"),
                          "double_chance_1X", "1X", 600000, 920000)

find_double_chance_X2(markets, basic_odds) ==
    LET away_odds == basic_odds.away
        draw_odds == basic_odds.draw
    IN IF away_odds = 0 \/ draw_odds = 0 THEN NoPrediction
       ELSE IF ~(200 <= away_odds /\ away_odds <= 500 /\ 2 * draw_odds <= 3 * away_odds) THEN NoPrediction
       ELSE BestCandidate(FoundOdds(markets, "8", "double chance", "x2"),
                          "double_chance_X2", "X2", 550000, 880000)

\* a faulty variant of league_factor: the adjustments of low and high are exchanged
league_factor_Exchanged(prediction_type, league_name) ==
    LET league_profile == get_league_scoring_profile(league_name)
    IN IF league_profile = "high"
       THEN IF prediction_type = "-3.5 buts" THEN 1150000
            ELSE IF prediction_type \in {"+1.5 buts", "+2.5 buts", "Les 2 marquent"} THEN 850000
            ELSE 1000000
       ELSE IF league_profile = "low"
       THEN IF prediction_type = "-3.5 buts" THEN 850000
            ELSE IF prediction_type \in {"+1.5 buts", "+2.5 buts", "Les 2 marquent"} THEN 1150000
            ELSE 1000000
       ELSE 1000000

\* the league-category adjustment of calculate_prediction_confidence
league_factor(prediction_type, league_name) ==
    LET league_profile == get_league_scoring_profile(league_name)
    IN IF league_profile = "low"
       THEN IF prediction_type = "-3.5 buts" THEN 1150000
            ELSE IF prediction_type \in {"+1.5 buts", "+2.5 buts", "Les 2 marquent"} THEN 850000
            ELSE 1000000
       ELSE IF league_profile = "high"
       THEN IF prediction_type = "-3.5 buts" THEN 850000
            ELSE IF prediction_type \in {"+1.5 buts", "+2.5 buts", "Les 2 marquent"} THEN 1150000
            ELSE 1000000
       ELSE 1000000

\* weights 0.4, 0.3, 0.3 of self.league_weights; min(0.98, weighted_confidence)
calculate_prediction_confidence(prediction, league_name) ==
    LET weighted_confidence ==
            (4 * prediction.raw_confidence
               + 3 * league_factor(prediction.type, league_name)
               + 3 * prediction.stability) \div 10
    IN [prediction EXCEPT !.confidence = Min(980000, weighted_confidence)]

\* the labels of the eight rules
PredictionTypes ==
    {"-3.5 buts", "+1.5 buts", "+2.5 buts", "Les 2 marquent", "Victoire domicile",
     "Victoire exterieur", "1X", "X2"}

\* the results of the eight rules in the order generate_match_predictions calls them
RuleResults(markets) ==
    LET basic_odds == get_teams_basic_odds(markets)
    IN << find_under_35_goals(markets), find_over_15_goals(markets),
          find_over_25_goals(markets), find_both_teams_to_score(markets),
          find_win_home(markets, basic_odds), find_win_away(markets, basic_odds),
          find_double_chance_1X(markets, basic_odds), find_double_chance_X2(markets, basic_odds) >>

\* all_predictions before the sort: the non-None results, each with its confidence
\* lines 985-987: the confidence of each candidate
WithConfidence(found, league_name) ==
    IF found = <<>> THEN <<>>
    ELSE [i \in 1..Len(found) |-> calculate_prediction_confidence(found[i], league_name)]

CollectPredictions(markets, league_name) ==
    WithConfidence(SelectSeq(RuleResults(markets), LAMBDA p : p # NoPrediction), league_name)

\* a faulty variant of generate_match_predictions: the candidates stay in rule order
generate_match_predictions_Unsorted(markets, league_name) ==
    CollectPredictions(markets, league_name)

\* all_predictions.sort(key=lambda x: x["confidence"], reverse=True)
\* the items of a list of <<key, item>> pairs
Items(keyed) == IF keyed = <<>> THEN <<>> ELSE [i \in 1..Len(keyed) |-> keyed[i][2]]

\* line 990, on the list all_predictions
SortByConfidence(all_predictions) ==
    IF all_predictions = <<>> THEN <<>>
    ELSE Items(StableSort([i \in 1..Len(all_predictions) |->
                              <<0 - all_predictions[i].confidence, all_predictions[i]>>]))

generate_match_predictions(markets, league_name) ==
    SortByConfidence(CollectPredictions(markets, league_name))

----------------------------------------------------------------------------
(* self.predictions: a dict that keeps insertion order, as a sequence of
   <<key, value>> pairs *)

DictKeys(d) == { d[i][1] : i \in 1..Len(d) }

\* a faulty variant of DictSet: a new key is placed first
DictSet_Prepend(d, key, value) ==
    IF key \in DictKeys(d)
    THEN [i \in 1..Len(d) |-> IF d[i][1] = key THEN <<key, value>> ELSE d[i]]
    ELSE <<<<key, value>>>> \o d

\* d[key] = value: an existing key keeps its position
DictSet(d, key, value) ==
    IF key \in DictKeys(d)
    THEN [i \in 1..Len(d) |-> IF d[i][1] = key THEN <<key, value>> ELSE d[i]]
    ELSE Append(d, <<key, value>>)

----------------------------------------------------------------------------
(* The coupon odds.  A natural number is a little-endian sequence of base-100
   digits, so that the product of the legs' odds (each in hundredths) is exact *)

RECURSIVE MulDigits(_, _, _)
MulDigits(digits, m, carry) ==
    IF digits = <<>>
    THEN IF carry = 0 THEN <<>> ELSE <<carry % 100>> \o MulDigits(<<>>, m, carry \div 100)
    ELSE LET v == Head(digits) * m + carry
         IN <<v % 100>> \o MulDigits(Tail(digits), m, v \div 100)

RECURSIVE DigitsValue(_)
DigitsValue(digits) ==
    IF digits = <<>> THEN 0 ELSE Head(digits) + 100 * DigitsValue(Tail(digits))

\* for match_id, pred in self.predictions.items(): self.coupon_total_odds *= pred["odds"]
RECURSIVE MultiplyOdds(_, _)
MultiplyOdds(preds, acc) ==
    IF preds = <<>> THEN acc
    ELSE MultiplyOdds(Tail(preds), MulDigits(acc, Head(preds)[2].odds, 0))

\* round(x, 2) of x = digits / 100^k: the nearest multiple of 0.01, in hundredths;
\* a value exactly half way goes to the even neighbour
Round2(digits, k) ==
    LET padded == IF Len(digits) >= k THEN digits
                  ELSE digits \o [i \in 1..(k - Len(digits)) |-> 0]
        dropped == SubSeq(padded, 1, k - 1)
        q == DigitsValue(SubSeq(padded, k, Len(padded)))
        top == IF k >= 2 THEN dropped[k - 1] ELSE 0
        below == \E i \in 1..(k - 2) : dropped[i] # 0
        up == \/ top > 50
              \/ top = 50 /\ below
              \/ top = 50 /\ ~below /\ q % 2 = 1
    IN IF up THEN q + 1 ELSE q

\* a faulty variant of CouponTotal: the product is cut after two decimals, not rounded
CouponTotal_Truncated(preds, old) ==
    IF preds # <<>>
    THEN DigitsValue(SubSeq(MultiplyOdds(preds, <<1>>), Len(preds), Len(MultiplyOdds(preds, <<1>>))))
    ELSE old

\* lines 1094-1098: the new value of self.coupon_total_odds
CouponTotal(preds, old) ==
    IF preds # <<>>
    THEN Round2(MultiplyOdds(preds, <<1>>), Len(preds))
    ELSE old

----------------------------------------------------------------------------
(* select_matches *)

\* a faulty variant of RoundHalfEven: the quotient is truncated
RoundHalfEven_Truncated(num, den) == num \div den

\* round(num / den) of Python 3: half way goes to the even neighbour
RoundHalfEven(num, den) ==
    LET q == num \div den
        r == num % den
    IN IF 2 * r > den \/ (2 * r = den /\ q % 2 = 1) THEN q + 1 ELSE q

\* lines 356-381: the quotas, from the sizes of the three categories
Quotas(n_low, n_medium, n_high) ==
    LET max_matches == Min(5, n_low + n_medium + n_high)
        low0 == Max(1, RoundHalfEven(max_matches * 6, 10))
        medium0 == Max(1, RoundHalfEven(max_matches * 3, 10))
        high0 == max_matches - low0 - medium0
        short1 == IF n_low < low0 THEN low0 - n_low ELSE 0
        low1 == IF n_low < low0 THEN n_low ELSE low0
        medium1 == medium0 + short1 \div 2
        high1 == high0 + (short1 - short1 \div 2)
        short2 == IF n_medium < medium1 THEN medium1 - n_medium ELSE 0
        medium2 == IF n_medium < medium1 THEN n_medium ELSE medium1
        high2 == high1 + short2
        short3 == IF n_high < high2 THEN high2 - n_high ELSE 0
        high3 == IF n_high < high2 THEN n_high ELSE high2
        medium3 == IF n_medium < medium2 + short3 THEN n_medium ELSE medium2 + short3
    IN [low |-> low1,
        medium |-> IF n_high < high2 THEN medium3 ELSE medium2,
        high |-> high3]

\* random.sample(population, k) raises ValueError when k < 0 or k > len(population)
SampleRaises(population, k) == k < 0 \/ k > Len(population)

\* a faulty variant of Sample: a position may be drawn more than once
Sample_WithReplacement(population, k) ==
    IF k = 0 THEN { <<>> }
    ELSE { [i \in 1..k |-> population[f[i]]] : f \in [1..k -> 1..Len(population)] }

\* random.sample(population, k): k distinct positions, in any order
Sample(population, k) ==
    IF k = 0 THEN { <<>> }
    ELSE
    { [i \in 1..k |-> population[f[i]]] :
        f \in { g \in [1..k -> 1..Len(population)] :
                  \A i, j \in 1..k : i # j => g[i] # g[j] } }

\* "random.sample(c, min(quota, len(c))) if c else []"
CategorySampleRaises(category, quota) ==
    category # <<>> /\ SampleRaises(category, Min(quota, Len(category)))

CategorySample(category, quota) ==
    IF category = <<>> THEN { <<>> } ELSE Sample(category, Min(quota, Len(category)))

----------------------------------------------------------------------------
(* get_todays_matches: the filter of one entry of a league's "data" list *)

\* comparing the entry's start_timestamp with an int raises TypeError
TimestampRaises(match) == match.start_timestamp = -1

KeepMatch(match) ==
    /\ start_timestamp <= match.start_timestamp
    /\ match.start_timestamp <= end_timestamp
    /\ match.start_timestamp > now_timestamp
    /\ match.home_team # <<>> /\ match.away_team # <<>> /\ match.league # "" /\ match.id # 0
    /\ is_valid_team_name(match.home_team)
    /\ is_valid_team_name(match.away_team)

\* "not response or response.get("status") != "success"", for a response that has .get
NoData(resp) == resp.kind = "None" \/ resp.status # "success"

----------------------------------------------------------------------------
(* The environment variables and __init__ *)

\* the value of os.environ.get(name) for a name that is not set (Python None)
Unset == "<unset>"

EnvNames == {"RAPIDAPI_KEY", "RAPIDAPI_HOST", "TELEGRAM_BOT_TOKEN", "TELEGRAM_CHANNEL_ID"}
EnvValues == {Unset, "", "v"}

\* the default of os.environ.get('RAPIDAPI_HOST', ...)
default_rapidapi_host == "1xbet-api.p.rapidapi.com"

\* a faulty variant of missing_vars: only names that are not set count (is None)
missing_vars_OnlyUnset(e) ==
    (IF e["RAPIDAPI_KEY"] = Unset THEN <<"RAPIDAPI_KEY">> ELSE <<>>)
      \o (IF e["TELEGRAM_BOT_TOKEN"] = Unset THEN <<"TELEGRAM_BOT_TOKEN">> ELSE <<>>)
      \o (IF e["TELEGRAM_CHANNEL_ID"] = Unset THEN <<"TELEGRAM_CHANNEL_ID">> ELSE <<>>)

\* _check_env_variables: "if not self.<field>" is true for None and for ""
missing_vars(e) ==
    (IF e["RAPIDAPI_KEY"] \in {Unset, ""} THEN <<"RAPIDAPI_KEY">> ELSE <<>>)
      \o (IF e["TELEGRAM_BOT_TOKEN"] \in {Unset, ""} THEN <<"TELEGRAM_BOT_TOKEN">> ELSE <<>>)
      \o (IF e["TELEGRAM_CHANNEL_ID"] \in {Unset, ""} THEN <<"TELEGRAM_CHANNEL_ID">> ELSE <<>>)

\* the environment of a deployment that sets the three required names
ConfiguredEnv ==
    [n \in EnvNames |-> IF n = "RAPIDAPI_HOST" THEN Unset ELSE "v"]

----------------------------------------------------------------------------
(* Initial state: the bot has been constructed (__init__) and __main__ has
   entered schedule_daily_job *)

NoEndpoint == [kind |-> "none", id |-> 0]

Init ==
    /\ pc = "startup"
    /\ caller = "none"
    /\ registered = FALSE
    /\ due = FALSE
    /\ runs = 0
    /\ active = 0
    /\ all_matches = <<>>
    /\ league_idx = 0
    /\ selected_matches = <<>>
    /\ match_idx = 0
    /\ used_prediction_types = <<>>
    /\ predictions = <<>>
    /\ coupon_total_odds = 0
    /\ endpoint = NoEndpoint
    /\ attempt = 0
    /\ sleeps = 0
    /\ response = None
    /\ league_log = <<>>
    /\ odds_log = <<>>
    /\ sent = <<>>
    /\ env = ConfiguredEnv
    /\ rapidapi_host = default_rapidapi_host
    /\ error_msg = <<>>

fetchVars == <<all_matches, league_idx, league_log>>
genVars == <<match_idx, used_prediction_types, predictions, odds_log>>
reqVars == <<endpoint, attempt, sleeps, response>>
envVars == <<env, rapidapi_host, error_msg>>

----------------------------------------------------------------------------
(* run_prediction_job: entry, return and escape of an exception *)

\* a faulty variant of EnterJob: the fields of the bot are not reinitialised
EnterJob_NoReset(who) ==
    /\ pc' = "leagues"
    /\ caller' = who
    /\ runs' = runs + 1
    /\ active' = active + 1
    /\ UNCHANGED <<selected_matches, predictions, coupon_total_odds>>
    /\ all_matches' = <<>>
    /\ league_idx' = 0
    /\ match_idx' = 0
    /\ used_prediction_types' = <<>>
    /\ league_log' = <<>>
    /\ odds_log' = <<>>
    /\ sent' = <<>>
    /\ endpoint' = NoEndpoint
    /\ attempt' = 0
    /\ sleeps' = 0
    /\ response' = None

\* lines 170-183 and 234-248: reset the state and enter get_todays_matches
EnterJob(who) ==
    /\ pc' = "leagues"
    /\ caller' = who
    /\ runs' = runs + 1
    /\ active' = active + 1
    /\ selected_matches' = <<>>
    /\ predictions' = <<>>
    /\ coupon_total_odds' = 100
    /\ all_matches' = <<>>
    /\ league_idx' = 0
    /\ match_idx' = 0
    /\ used_prediction_types' = <<>>
    /\ league_log' = <<>>
    /\ odds_log' = <<>>
    /\ sent' = <<>>
    /\ endpoint' = NoEndpoint
    /\ attempt' = 0
    /\ sleeps' = 0
    /\ response' = None

\* run_prediction_job returns to its caller: line 158 (then line 161) or the
\* scheduler, which computes the job's next run from the current time
ReturnFromJob ==
    /\ pc' = IF caller = "startup" THEN "register" ELSE "loop"
    /\ active' = active - 1
    /\ caller' = "none"
    /\ due' = IF caller = "scheduled" THEN FALSE ELSE due

\* an exception nothing catches: it leaves run_prediction_job, run_pending and
\* schedule_daily_job, and __main__ (lines 1216-1220) logs it and the process ends
RaiseFromJob ==
    /\ pc' = "exited"
    /\ active' = 0
    /\ caller' = "none"
    /\ due' = due

----------------------------------------------------------------------------
(* schedule_daily_job *)

\* line 158: the run at startup
StartupRun ==
    /\ pc = "startup"
    /\ EnterJob("startup")
    /\ UNCHANGED <<registered, due>>
    /\ UNCHANGED envVars

\* line 161: schedule.every().day.at("07:00").do(self.run_prediction_job)
RegisterDailyJob ==
    /\ pc = "register"
    /\ registered' = TRUE
    /\ pc' = "loop"
    /\ UNCHANGED <<caller, due, runs, active, selected_matches, coupon_total_odds, sent>>
    /\ UNCHANGED <<fetchVars, genVars, reqVars>>
    /\ UNCHANGED envVars

\* the wall clock reaches 07:00: the registered job becomes due.  The clock does
\* not wait for the thread: this can happen at any position of the program
ClockReaches0700 ==
    /\ registered
    /\ ~due
    /\ pc # "exited"
    /\ due' = TRUE
    /\ UNCHANGED <<pc, caller, registered, runs, active, selected_matches, coupon_total_odds, sent>>
    /\ UNCHANGED <<fetchVars, genVars, reqVars>>
    /\ UNCHANGED envVars

\* a faulty variant of RunPending: the due job is started from another thread,
\* whatever the position of the main thread
RunPending_Threaded ==
    /\ due
    /\ runs < MaxRuns + 1
    /\ EnterJob("scheduled")
    /\ due' = FALSE
    /\ UNCHANGED registered
    /\ UNCHANGED envVars

\* lines 166-168: schedule.run_pending() finds the job due and calls it
RunPending ==
    /\ pc = "loop"
    /\ due
    /\ runs < MaxRuns
    /\ EnterJob("scheduled")
    /\ due' = FALSE
    /\ UNCHANGED registered
    /\ UNCHANGED envVars

----------------------------------------------------------------------------
(* make_api_request *)

\* the 200 bodies the API can answer to the endpoint of the call in progress
Bodies ==
    IF endpoint.kind = "matches" THEN LeagueBodies(league_idx + 1) ELSE OddsBodies(endpoint.id)

\* lines 210-216: the attempt is answered with status 200 and a body json.loads decodes
ApiAttemptSucceeds ==
    /\ pc = "request"
    /\ \E body \in Bodies :
         /\ attempt' = attempt + 1
         /\ response' = body
         /\ pc' = "response"
    /\ UNCHANGED <<endpoint, sleeps>>
    /\ UNCHANGED <<caller, registered, due, runs, active, selected_matches, coupon_total_odds, sent>>
    /\ UNCHANGED <<fetchVars, genVars>>
    /\ UNCHANGED envVars

\* a faulty variant of ApiAttemptFails: it sleeps after the last attempt too
ApiAttemptFails_SleepsAfterLast ==
    /\ pc = "request"
    /\ attempt' = attempt + 1
    /\ sleeps' = sleeps + retry_delay
    /\ IF attempt < max_retries - 1
       THEN pc' = "request" /\ response' = response
       ELSE pc' = "response" /\ response' = None
    /\ UNCHANGED endpoint
    /\ UNCHANGED <<caller, registered, due, runs, active, selected_matches, coupon_total_odds, sent>>
    /\ UNCHANGED <<fetchVars, genVars>>
    /\ UNCHANGED envVars

\* lines 217-230: the attempt fails: another status ("status"), an exception of the
\* connection ("exception") or a 200 body json.loads cannot decode ("undecodable")
ApiAttemptFails ==
    /\ pc = "request"
    /\ \E failure \in {"status", "exception", "undecodable"} :
         /\ attempt' = attempt + 1
         /\ IF attempt < max_retries - 1
            THEN /\ sleeps' = sleeps + retry_delay
                 /\ pc' = "request"
                 /\ response' = response
            ELSE /\ sleeps' = sleeps
                 /\ pc' = "response"
                 /\ response' = None
    /\ UNCHANGED endpoint
    /\ UNCHANGED <<caller, registered, due, runs, active, selected_matches, coupon_total_odds, sent>>
    /\ UNCHANGED <<fetchVars, genVars>>
    /\ UNCHANGED envVars

\* the locals of a finished make_api_request call are gone
ForgetRequest ==
    /\ endpoint' = NoEndpoint
    /\ attempt' = 0
    /\ sleeps' = 0
    /\ response' = None

----------------------------------------------------------------------------
(* get_todays_matches *)

\* lines 251-256: the request for the next league id
BeginLeagueRequest ==
    /\ pc = "leagues"
    /\ league_idx < NumLeagues
    /\ endpoint' = [kind |-> "matches", id |-> league_ids[league_idx + 1]]
    /\ attempt' = 0
    /\ sleeps' = 0
    /\ response' = None
    /\ pc' = "request"
    /\ UNCHANGED <<caller, registered, due, runs, active, selected_matches, coupon_total_odds, sent>>
    /\ UNCHANGED <<fetchVars, genVars>>
    /\ UNCHANGED envVars

\* a faulty variant of LeagueResponseNoData: the loop over the league ids is left
LeagueResponseNoData_Break ==
    /\ pc = "response"
    /\ endpoint.kind = "matches"
    /\ response.kind # "scalar"
    /\ NoData(response) \/ response.data_type # "list"
    /\ league_idx' = NumLeagues
    /\ league_log' = Append(league_log, response)
    /\ pc' = "leagues"
    /\ ForgetRequest
    /\ UNCHANGED all_matches
    /\ UNCHANGED <<caller, registered, due, runs, active, selected_matches, coupon_total_odds, sent>>
    /\ UNCHANGED genVars
    /\ UNCHANGED envVars

\* lines 258-268: no data for this league id, continue with the next
LeagueResponseNoData ==
    /\ pc = "response"
    /\ endpoint.kind = "matches"
    /\ response.kind # "scalar"
    /\ NoData(response) \/ response.data_type # "list"
    /\ league_idx' = league_idx + 1
    /\ league_log' = Append(league_log, response)
    /\ pc' = "leagues"
    /\ ForgetRequest
    /\ UNCHANGED all_matches
    /\ UNCHANGED <<caller, registered, due, runs, active, selected_matches, coupon_total_odds, sent>>
    /\ UNCHANGED genVars
    /\ UNCHANGED envVars

\* lines 263-300: the entries of the league that pass the filter are appended
LeagueResponseData ==
    /\ pc = "response"
    /\ endpoint.kind = "matches"
    /\ response.kind = "dict"
    /\ ~NoData(response)
    /\ response.data_type = "list"
    /\ \A i \in 1..Len(response.data) : ~TimestampRaises(response.data[i])
    /\ all_matches' = all_matches \o SelectSeq(response.data, KeepMatch)
    /\ league_idx' = league_idx + 1
    /\ league_log' = Append(league_log, response)
    /\ pc' = "leagues"
    /\ ForgetRequest
    /\ UNCHANGED <<caller, registered, due, runs, active, selected_matches, coupon_total_odds, sent>>
    /\ UNCHANGED genVars
    /\ UNCHANGED envVars

\* line 258: response.get on a value that is not a dict raises AttributeError;
\* line 276: comparing a start_timestamp that is None raises TypeError
LeagueResponseRaises ==
    /\ pc = "response"
    /\ endpoint.kind = "matches"
    /\ \/ response.kind = "scalar"
       \/ /\ response.kind = "dict"
          /\ ~NoData(response)
          /\ response.data_type = "list"
          /\ \E i \in 1..Len(response.data) : TimestampRaises(response.data[i])
    /\ league_log' = Append(league_log, response)
    /\ RaiseFromJob
    /\ UNCHANGED <<all_matches, league_idx>>
    /\ UNCHANGED <<registered, runs, selected_matches, coupon_total_odds, sent>>
    /\ UNCHANGED <<genVars, reqVars>>
    /\ UNCHANGED envVars

----------------------------------------------------------------------------
(* run_prediction_job, lines 183-201, with select_matches *)

\* lines 200-201: get_todays_matches returned an empty list
NoMatchesFound ==
    /\ pc = "leagues"
    /\ league_idx = NumLeagues
    /\ all_matches = <<>>
    /\ ReturnFromJob
    /\ UNCHANGED <<registered, runs, selected_matches, coupon_total_odds, sent>>
    /\ UNCHANGED <<fetchVars, genVars, reqVars>>
    /\ UNCHANGED envVars

low_scoring_matches(matches) ==
    SelectSeq(matches, LAMBDA m : is_low_scoring_league(m.league))
high_scoring_matches(matches) ==
    SelectSeq(matches, LAMBDA m : ~is_low_scoring_league(m.league) /\ is_high_scoring_league(m.league))
medium_scoring_matches(matches) ==
    SelectSeq(matches, LAMBDA m : ~is_low_scoring_league(m.league) /\ ~is_high_scoring_league(m.league))

MatchQuotas(matches) ==
    Quotas(Len(low_scoring_matches(matches)), Len(medium_scoring_matches(matches)),
           Len(high_scoring_matches(matches)))

\* random.sample raises ValueError in select_matches
SelectRaises(matches) ==
    \/ CategorySampleRaises(low_scoring_matches(matches), MatchQuotas(matches).low)
    \/ CategorySampleRaises(medium_scoring_matches(matches), MatchQuotas(matches).medium)
    \/ CategorySampleRaises(high_scoring_matches(matches), MatchQuotas(matches).high)

\* the values self.selected_matches can take (line 389)
Selections(matches) ==
    { sl \o sm \o sh :
        sl \in CategorySample(low_scoring_matches(matches), MatchQuotas(matches).low),
        sm \in CategorySample(medium_scoring_matches(matches), MatchQuotas(matches).medium),
        sh \in CategorySample(high_scoring_matches(matches), MatchQuotas(matches).high) }

\* lines 185-191 and 330-404: select the matches and enter generate_predictions
SelectMatches ==
    /\ pc = "leagues"
    /\ league_idx = NumLeagues
    /\ all_matches # <<>>
    /\ IF SelectRaises(all_matches)
       THEN /\ RaiseFromJob
            /\ UNCHANGED selected_matches
       ELSE \E selection \in Selections(all_matches) :
              /\ selected_matches' = selection
              /\ IF selection # <<>>
                 THEN /\ pc' = "matches"
                      /\ UNCHANGED <<caller, due, active>>
                 ELSE ReturnFromJob
    /\ UNCHANGED <<registered, runs, coupon_total_odds, sent>>
    /\ UNCHANGED <<fetchVars, genVars, reqVars>>
    /\ UNCHANGED envVars

----------------------------------------------------------------------------
(* generate_predictions *)

\* line 1039: the candidates whose odds are within the accepted range
valid_predictions(all_predictions) ==
    SelectSeq(all_predictions, LAMBDA p : InRange(p.odds))

\* position of the first candidate whose label is in labels, 0 if there is none
FirstIndex(all_predictions, labels) ==
    LET hits == { i \in 1..Len(all_predictions) : all_predictions[i].type \in labels }
    IN IF hits = {} THEN 0 ELSE CHOOSE i \in hits : \A j \in hits : i <= j

\* a faulty variant of ChoosePrediction: the labels already used are not looked at
ChoosePrediction_NoDedup(all_predictions, used, league_name) ==
    [prediction |-> all_predictions[1], used |-> Append(used, all_predictions[1].type)]

\* a faulty variant of ChoosePrediction: the label of a candidate chosen for its
\* unused label is not recorded
ChoosePrediction_NotRecorded(all_predictions, used, league_name) ==
    LET fresh == FirstIndex(all_predictions, PredictionTypes \ Range(used))
        under == FirstIndex(all_predictions, {"-3.5 buts"})
    IN IF fresh # 0
       THEN [prediction |-> all_predictions[fresh], used |-> used]
       ELSE IF is_low_scoring_league(league_name) /\ under # 0
       THEN [prediction |-> all_predictions[under], used |-> used]
       ELSE [prediction |-> all_predictions[1], used |-> used]

\* a faulty variant of ChoosePrediction: when every label is used, the candidate of
\* highest confidence is repeated in every league
ChoosePrediction_NoUnderRepeat(all_predictions, used, league_name) ==
    LET fresh == FirstIndex(all_predictions, PredictionTypes \ Range(used))
    IN IF fresh # 0
       THEN [prediction |-> all_predictions[fresh],
             used |-> Append(used, all_predictions[fresh].type)]
       ELSE [prediction |-> all_predictions[1], used |-> used]

\* lines 1048-1075: the candidate chosen among all_predictions (which is not empty)
\* and the new value of used_prediction_types
ChoosePrediction(all_predictions, used, league_name) ==
    LET fresh == FirstIndex(all_predictions, PredictionTypes \ Range(used))
        under == FirstIndex(all_predictions, {"-3.5 buts"})
    IN IF fresh # 0
       THEN [prediction |-> all_predictions[fresh],
             used |-> Append(used, all_predictions[fresh].type)]
       ELSE IF is_low_scoring_league(league_name) /\ under # 0
       THEN [prediction |-> all_predictions[under], used |-> used]
       ELSE [prediction |-> all_predictions[1], used |-> used]

\* lines 1079-1084: the stored leg is the candidate with the match's fields added
Leg(prediction, match) ==
    [type |-> prediction.type, odds |-> prediction.odds,
     raw_confidence |-> prediction.raw_confidence, stability |-> prediction.stability,
     confidence |-> prediction.confidence,
     match_id |-> match.id, home_team |-> match.home_team, away_team |-> match.away_team,
     league_name |-> match.league, start_timestamp |-> match.start_timestamp]

\* lines 1010-1024: the next selected match; its odds are requested when its team
\* names are valid, otherwise it is skipped
BeginMatch ==
    /\ pc = "matches"
    /\ match_idx < Len(selected_matches)
    /\ LET match == selected_matches[match_idx + 1]
       IN IF is_valid_team_name(match.home_team) /\ is_valid_team_name(match.away_team)
          THEN /\ endpoint' = [kind |-> "markets", id |-> match.id]
               /\ attempt' = 0
               /\ sleeps' = 0
               /\ response' = None
               /\ pc' = "request"
               /\ UNCHANGED match_idx
          ELSE /\ match_idx' = match_idx + 1
               /\ UNCHANGED <<pc, reqVars>>
    /\ UNCHANGED <<used_prediction_types, predictions, odds_log>>
    /\ UNCHANGED <<caller, registered, due, runs, active, selected_matches, coupon_total_odds, sent>>
    /\ UNCHANGED fetchVars
    /\ UNCHANGED envVars

\* a faulty variant of MarketsOf: the "status" of the response is not looked at
MarketsOf_IgnoreStatus(resp) == IF resp.kind = "None" THEN << >> ELSE resp.data

\* get_match_odds (lines 411-415): the markets of the response, << >> when there are none
MarketsOf(resp) == IF NoData(resp) THEN << >> ELSE resp.data

\* the sorted in-range candidates of the match whose odds request returned resp
Candidates(resp, match) ==
    IF DOMAIN MarketsOf(resp) = {} THEN <<>>
    ELSE valid_predictions(generate_match_predictions(MarketsOf(resp), match.league))

\* lines 1026-1043: no odds or no candidate for this match, continue with the next
OddsResponseSkipped ==
    /\ pc = "response"
    /\ endpoint.kind = "markets"
    /\ response.kind # "scalar"
    /\ Candidates(response, selected_matches[match_idx + 1]) = <<>>
    /\ match_idx' = match_idx + 1
    /\ odds_log' = Append(odds_log, <<endpoint.id, response>>)
    /\ pc' = "matches"
    /\ ForgetRequest
    /\ UNCHANGED <<used_prediction_types, predictions>>
    /\ UNCHANGED <<caller, registered, due, runs, active, selected_matches, coupon_total_odds, sent>>
    /\ UNCHANGED fetchVars
    /\ UNCHANGED envVars

\* lines 1030-1091: one candidate is chosen and stored under the match id
OddsResponseLeg ==
    /\ pc = "response"
    /\ endpoint.kind = "markets"
    /\ response.kind # "scalar"
    /\ LET match == selected_matches[match_idx + 1]
           all_predictions == Candidates(response, match)
       IN /\ all_predictions # <<>>
          /\ LET chosen == ChoosePrediction(all_predictions, used_prediction_types, match.league)
             IN /\ used_prediction_types' = chosen.used
                /\ predictions' = DictSet(predictions, match.id, Leg(chosen.prediction, match))
    /\ match_idx' = match_idx + 1
    /\ odds_log' = Append(odds_log, <<endpoint.id, response>>)
    /\ pc' = "matches"
    /\ ForgetRequest
    /\ UNCHANGED <<caller, registered, due, runs, active, selected_matches, coupon_total_odds, sent>>
    /\ UNCHANGED fetchVars
    /\ UNCHANGED envVars

\* line 411: response.get on a value that is not a dict raises AttributeError
OddsResponseRaises ==
    /\ pc = "response"
    /\ endpoint.kind = "markets"
    /\ response.kind = "scalar"
    /\ odds_log' = Append(odds_log, <<endpoint.id, response>>)
    /\ RaiseFromJob
    /\ UNCHANGED <<match_idx, used_prediction_types, predictions>>
    /\ UNCHANGED <<registered, runs, selected_matches, coupon_total_odds, sent>>
    /\ UNCHANGED <<fetchVars, reqVars>>
    /\ UNCHANGED envVars

\* a faulty variant of FinishPredictions: the loop over the selected matches is left
\* after the first match
FinishPredictions_Early ==
    /\ pc = "matches"
    /\ match_idx >= 1
    /\ coupon_total_odds' = CouponTotal(predictions, coupon_total_odds)
    /\ pc' = "send"
    /\ UNCHANGED <<caller, registered, due, runs, active, selected_matches, sent>>
    /\ UNCHANGED <<fetchVars, genVars, reqVars>>
    /\ UNCHANGED envVars

\* lines 1093-1100, then 194-197: the coupon odds are computed, the summary is
\* printed and send_predictions_to_telegram is entered
FinishPredictions ==
    /\ pc = "matches"
    /\ match_idx = Len(selected_matches)
    /\ coupon_total_odds' = CouponTotal(predictions, coupon_total_odds)
    /\ pc' = "send"
    /\ UNCHANGED <<caller, registered, due, runs, active, selected_matches, sent>>
    /\ UNCHANGED <<fetchVars, genVars, reqVars>>
    /\ UNCHANGED envVars

----------------------------------------------------------------------------
(* send_predictions_to_telegram *)

\* format_prediction_message: the parts of the text in order: the title, then the
\* fixed "no prediction" text, or the legs in the order of self.predictions.items(),
\* the total odds and the advice
format_prediction_message(preds, total) ==
    IF preds = <<>>
    THEN << [kind |-> "title"], [kind |-> "no prediction"] >>
    ELSE << [kind |-> "title"] >>
           \o [i \in 1..Len(preds) |->
                 [kind |-> "leg",
                  league_name |-> preds[i][2].league_name,
                  home_team |-> preds[i][2].home_team,
                  away_team |-> preds[i][2].away_team,
                  start_timestamp |-> preds[i][2].start_timestamp,
                  type |-> preds[i][2].type,
                  odds |-> preds[i][2].odds]]
           \o << [kind |-> "total", odds |-> total], [kind |-> "advice"] >>

\* send_to_telegram (lines 1175-1197): one POST; its result is True for status 200
\* and False for another status or an exception
TelegramPost ==
    /\ pc = "send"
    /\ \E outcome \in {"200", "status", "exception"} :
         sent' = Append(sent, [message |-> format_prediction_message(predictions, coupon_total_odds),
                               outcome |-> outcome,
                               result |-> (outcome = "200")])
    /\ ReturnFromJob
    /\ UNCHANGED <<registered, runs, selected_matches, coupon_total_odds>>
    /\ UNCHANGED <<fetchVars, genVars, reqVars>>
    /\ UNCHANGED envVars

----------------------------------------------------------------------------

Next ==
    \/ StartupRun
    \/ RegisterDailyJob
    \/ ClockReaches0700
    \/ RunPending
    \/ ApiAttemptSucceeds
    \/ ApiAttemptFails
    \/ BeginLeagueRequest
    \/ LeagueResponseNoData
    \/ LeagueResponseData
    \/ LeagueResponseRaises
    \/ NoMatchesFound
    \/ SelectMatches
    \/ BeginMatch
    \/ OddsResponseSkipped
    \/ OddsResponseLeg
    \/ OddsResponseRaises
    \/ FinishPredictions
    \/ TelegramPost

Spec == Init /\ [][Next]_vars

----------------------------------------------------------------------------
(* select_matches on its own, for any distribution of the available matches over
   the three categories *)

MaxPerCategory == 4

\* n matches of one league, with ids first + 1 .. first + n
MatchesOfLeague(first, league, n) ==
    [i \in 1..n |-> Match(first + i, league, <<"C","l","u","b">>, <<"T","e","a","m">>, 15)]

\* a list all_matches with n_low, n_medium and n_high matches of the categories
AvailableMatches(n_low, n_medium, n_high) ==
    MatchesOfLeague(300, "Germany Bundesliga", n_high)
      \o MatchesOfLeague(200, "Ghana Premier League", n_low)
      \o MatchesOfLeague(400, "France Ligue 1", n_medium)

InitSelect ==
    /\ pc = "select_matches"
    /\ caller = "startup"
    /\ registered = FALSE
    /\ due = FALSE
    /\ runs = 1
    /\ active = 1
    /\ all_matches \in { AvailableMatches(l, m, h) : l, m, h \in 0..MaxPerCategory }
    /\ league_idx = NumLeagues
    /\ selected_matches = <<>>
    /\ match_idx = 0
    /\ used_prediction_types = <<>>
    /\ predictions = <<>>
    /\ coupon_total_odds = 100
    /\ endpoint = NoEndpoint
    /\ attempt = 0
    /\ sleeps = 0
    /\ response = None
    /\ league_log = <<>>
    /\ odds_log = <<>>
    /\ sent = <<>>
    /\ env = ConfiguredEnv
    /\ rapidapi_host = default_rapidapi_host
    /\ error_msg = <<>>

\* lines 330-404: one call of select_matches; an empty list returns at once
SelectCall ==
    /\ pc = "select_matches"
    /\ IF all_matches = <<>>
       THEN pc' = "selected" /\ UNCHANGED selected_matches
       ELSE IF SelectRaises(all_matches)
       THEN pc' = "exited" /\ UNCHANGED selected_matches
       ELSE \E selection \in Selections(all_matches) :
              selected_matches' = selection /\ pc' = "selected"
    /\ UNCHANGED <<caller, registered, due, runs, active, coupon_total_odds, sent>>
    /\ UNCHANGED <<fetchVars, genVars, reqVars, envVars>>

NextSelect == SelectCall

SpecSelect == InitSelect /\ [][NextSelect]_vars

----------------------------------------------------------------------------
(* generate_predictions on its own, for any selection select_matches can make on
   a day with five matches *)

InitPredict ==
    /\ pc = "matches"
    /\ caller = "startup"
    /\ registered = FALSE
    /\ due = FALSE
    /\ runs = 1
    /\ active = 1
    /\ all_matches = <<m504, m505, m501, m502, m503>>
    /\ league_idx = NumLeagues
    /\ selected_matches \in Selections(all_matches)
    /\ match_idx = 0
    /\ used_prediction_types = <<>>
    /\ predictions = <<>>
    /\ coupon_total_odds = 100
    /\ endpoint = NoEndpoint
    /\ attempt = 0
    /\ sleeps = 0
    /\ response = None
    /\ league_log = <<>>
    /\ odds_log = <<>>
    /\ sent = <<>>
    /\ env = ConfiguredEnv
    /\ rapidapi_host = default_rapidapi_host
    /\ error_msg = <<>>

NextPredict ==
    \/ BeginMatch
    \/ ApiAttemptSucceeds
    \/ ApiAttemptFails
    \/ OddsResponseSkipped
    \/ OddsResponseLeg
    \/ OddsResponseRaises
    \/ FinishPredictions

SpecPredict == InitPredict /\ [][NextPredict]_vars

----------------------------------------------------------------------------
(* The filter of get_todays_matches on its own, for any "data" list of at most two
   entries *)

\* entries of a "data" list: a start_timestamp of 0 stands for a missing key, an id
\* of 0, a league of "" and a team of <<>> for a missing or empty member
Entries ==
    { Match(601, "France Ligue 1", <<"L","y","o","n">>, <<"N","i","c","e">>, ts) :
        ts \in {0, 9, 10, 12, 13, 19, 20, 21} }
      \cup { Match(0, "France Ligue 1", <<"L","y","o","n">>, <<"N","i","c","e">>, 15),
             Match(602, "", <<"L","y","o","n">>, <<"N","i","c","e">>, 15),
             Match(603, "France Ligue 1", <<>>, <<"N","i","c","e">>, 15),
             Match(604, "France Ligue 1", <<"L","y","o","n">>, <<>>, 15),
             Match(605, "France Ligue 1", <<" ","H","O","M","E"," ">>, <<"N","i","c","e">>, 15),
             Match(606, "France Ligue 1", <<"L","y","o","n">>, <<"a","w","a","y">>, 15),
             Match(607, "France Ligue 1", <<"X">>, <<"N","i","c","e">>, 15),
             Match(608, "France Ligue 1", <<"L","y","o","n">>, <<" ","O","M"," "," ">>, 15),
             Match(609, "France Ligue 1", <<" "," "," ">>, <<"N","i","c","e">>, 15),
             Match(610, "France Ligue 1", <<" ","G","o","r"," ">>, <<"N","i","c","e">>, 15),
             Match(611, "France Ligue 1", <<"L","y","o","n">>, <<"N","i","c","e">>, -1) }

EntryLists == { <<a>> : a \in Entries } \cup { <<a, b>> : a, b \in Entries }

\* the answer to the request for the last league id has arrived
InitToday ==
    /\ pc = "response"
    /\ caller = "startup"
    /\ registered = FALSE
    /\ due = FALSE
    /\ runs = 1
    /\ active = 1
    /\ all_matches = <<>>
    /\ league_idx = NumLeagues - 1
    /\ selected_matches = <<>>
    /\ match_idx = 0
    /\ used_prediction_types = <<>>
    /\ predictions = <<>>
    /\ coupon_total_odds = 100
    /\ endpoint = [kind |-> "matches", id |-> league_ids[NumLeagues]]
    /\ attempt = 1
    /\ sleeps = 0
    /\ response \in { Body("dict", status, "list", l) : status \in {"success", "error"}, l \in EntryLists }
    /\ league_log = <<>>
    /\ odds_log = <<>>
    /\ sent = <<>>
    /\ env = ConfiguredEnv
    /\ rapidapi_host = default_rapidapi_host
    /\ error_msg = <<>>

NextToday ==
    \/ LeagueResponseNoData
    \/ LeagueResponseData
    \/ LeagueResponseRaises

SpecToday == InitToday /\ [][NextToday]_vars

----------------------------------------------------------------------------
(* The rules on their own, for markets that hold several outcomes of one label *)

\* market 17 with two under 3.5 outcomes and market 99 with one; odds of 0 stand
\* for an outcome without odds
UnderMarkets(a, b, c) ==
    ("17" :> Market("Total", << Outcome("Under 3.5", a), Outcome("Under 3.5", b) >>))
      @@ ("99" :> Market("Asian Total", << Outcome("Under 3.5", c) >>))

\* market 17 with two over 2.5 outcomes and one over 1.5 outcome
OverMarkets(a, b, c) ==
    "17" :> Market("Total", << Outcome("Over 2.5", a), Outcome("Over 2.5", b), Outcome("Over 1.5", c) >>)

\* market 8 with two outcomes of each double chance, without a 1x2 market (g = 0)
\* or with one: level odds (g = 1) or a clear favourite at home (g = 2)
DoubleChanceMarkets(g, a, b, c, d) ==
    LET dc == "8" :> Market("Double Chance", << Outcome("1X", a), Outcome("1X", b),
                                              Outcome("X2", c), Outcome("X2", d) >>)
    IN IF g = 0 THEN dc
       ELSE IF g = 1
       THEN dc @@ ("1" :> Market("1x2", << Outcome("Home", 210), Outcome("Draw", 300), Outcome("Away", 340) >>))
       ELSE dc @@ ("1" :> Market("1x2", << Outcome("Home", 150), Outcome("Draw", 400), Outcome("Away", 600) >>))

UnderOdds == {0, 105, 160, 180, 190, 210, 1001}
Over25Odds == {0, 126, 131, 133, 138, 1002}
Over15Odds == {0, 109, 115}
Odds1X == {0, 105, 137, 143}
OddsX2 == {0, 157, 163}

RuleMarkets ==
    { UnderMarkets(a, b, c) : a, b, c \in UnderOdds }
      \cup { OverMarkets(a, b, c) : a, b \in Over25Odds, c \in Over15Odds }
      \cup { DoubleChanceMarkets(g, a, b, c, d) : g \in 0..2, a, b \in Odds1X, c, d \in OddsX2 }

\* the odds of the only selected match have arrived
InitRules ==
    /\ pc = "response"
    /\ caller = "startup"
    /\ registered = FALSE
    /\ due = FALSE
    /\ runs = 1
    /\ active = 1
    /\ all_matches = <<m104>>
    /\ league_idx = NumLeagues
    /\ selected_matches = <<m104>>
    /\ match_idx = 0
    /\ used_prediction_types = <<>>
    /\ predictions = <<>>
    /\ coupon_total_odds = 100
    /\ endpoint = [kind |-> "markets", id |-> 104]
    /\ attempt = 1
    /\ sleeps = 0
    /\ response \in { Body("dict", "success", "dict", markets) : markets \in RuleMarkets }
    /\ league_log = <<>>
    /\ odds_log = <<>>
    /\ sent = <<>>
    /\ env = ConfiguredEnv
    /\ rapidapi_host = default_rapidapi_host
    /\ error_msg = <<>>

NextRules ==
    \/ OddsResponseSkipped
    \/ OddsResponseLeg
    \/ FinishPredictions

SpecRules == InitRules /\ [][NextRules]_vars

----------------------------------------------------------------------------
(* The process from its start: __main__ constructs the bot in any environment *)

InitEnv ==
    /\ pc = "construct"
    /\ caller = "none"
    /\ registered = FALSE
    /\ due = FALSE
    /\ runs = 0
    /\ active = 0
    /\ all_matches = <<>>
    /\ league_idx = 0
    /\ selected_matches = <<>>
    /\ match_idx = 0
    /\ used_prediction_types = <<>>
    /\ predictions = <<>>
    /\ coupon_total_odds = 0
    /\ endpoint = NoEndpoint
    /\ attempt = 0
    /\ sleeps = 0
    /\ response = None
    /\ league_log = <<>>
    /\ odds_log = <<>>
    /\ sent = <<>>
    /\ env \in [EnvNames -> EnvValues]
    /\ rapidapi_host = ""
    /\ error_msg = <<>>

\* lines 1214-1215 and 22-115: FootballPredictionBot(); the EnvironmentError of
\* _check_env_variables is caught by __main__, which logs it, and the process ends
Construct ==
    /\ pc = "construct"
    /\ rapidapi_host' = IF env["RAPIDAPI_HOST"] = Unset THEN default_rapidapi_host
                        ELSE env["RAPIDAPI_HOST"]
    /\ IF missing_vars(env) # <<>>
       THEN pc' = "exited" /\ error_msg' = missing_vars(env)
       ELSE pc' = "startup" /\ error_msg' = <<>>
    /\ UNCHANGED env
    /\ UNCHANGED <<caller, registered, due, runs, active, selected_matches, coupon_total_odds, sent>>
    /\ UNCHANGED <<fetchVars, genVars, reqVars>>

NextEnv ==
    \/ Construct
    \/ Next

SpecEnv == InitEnv /\ [][NextEnv]_vars

----------------------------------------------------------------------------
(* Properties *)

DictGet(d, key) == (CHOOSE i \in 1..Len(d) : d[i][1] = key)
LegOf(key) == predictions[DictGet(predictions, key)][2]

\* generate_predictions has finished in the current run
GenerationFinished == pc = "send" \/ sent # <<>>

\* arithmetic on little-endian base-100 digit sequences
RECURSIVE ToDigits(_)
ToDigits(n) == IF n = 0 THEN <<>> ELSE <<n % 100>> \o ToDigits(n \div 100)

ShiftDigits(digits, j) == IF j <= 0 THEN digits ELSE [i \in 1..j |-> 0] \o digits

RECURSIVE AddDigits(_, _, _)
AddDigits(a, b, carry) ==
    IF a = <<>> /\ b = <<>> THEN (IF carry = 0 THEN <<>> ELSE <<carry>>)
    ELSE LET x == IF a = <<>> THEN 0 ELSE Head(a)
             y == IF b = <<>> THEN 0 ELSE Head(b)
             v == x + y + carry
         IN <<v % 100>> \o AddDigits(IF a = <<>> THEN <<>> ELSE Tail(a),
                                     IF b = <<>> THEN <<>> ELSE Tail(b), v \div 100)

DigitAt(digits, i) == IF i <= Len(digits) THEN digits[i] ELSE 0

\* a <= b
DigitsLeq(a, b) ==
    LET n == Max(Len(a), Len(b))
    IN \/ \A i \in 1..n : DigitAt(a, i) = DigitAt(b, i)
       \/ \E i \in 1..n : /\ DigitAt(a, i) < DigitAt(b, i)
                          /\ \A j \in (i + 1)..n : DigitAt(a, j) = DigitAt(b, j)

\* the exact product of the odds (in hundredths) of the legs at the positions in S
RECURSIVE LegsProduct(_)
LegsProduct(S) ==
    IF S = {} THEN <<1>>
    ELSE LET i == CHOOSE i \in S : TRUE
         IN MulDigits(LegsProduct(S \ {i}), predictions[i][2].odds, 0)

\* total (in hundredths) is a multiple of 0.01 nearest to product / 100^k:
\* 2 * |total * 100^(k-1) - product| <= 100^(k-1)
NearestHundredth(total, product, k) ==
    LET t2 == MulDigits(ShiftDigits(ToDigits(total), k - 1), 2, 0)
        p2 == MulDigits(product, 2, 0)
        unit == ShiftDigits(<<1>>, k - 1)
    IN DigitsLeq(p2, AddDigits(t2, unit, 0)) /\ DigitsLeq(t2, AddDigits(p2, unit, 0))

\* C1: whenever generate_predictions has finished, coupon_total_odds is the product
\* of the odds of the legs stored in self.predictions rounded to two decimals, and
\* it is 1.0 when the coupon is empty
C1_CouponOddsIsRoundedProduct ==
    GenerationFinished =>
        IF predictions = <<>>
        THEN coupon_total_odds = 100
        ELSE NearestHundredth(coupon_total_odds, LegsProduct(1..Len(predictions)), Len(predictions))

\* a finished coupon of at least three legs whose product had to be rounded up
C1_Witness ==
    /\ pc = "send"
    /\ Len(predictions) >= 3
    /\ ~DigitsLeq(ShiftDigits(ToDigits(coupon_total_odds), Len(predictions) - 1),
                  LegsProduct(1..Len(predictions)))

\* the outcomes of market market_id whose name passes NameOk and whose odds are present
NamedOutcomes(markets, market_id, name_test) ==
    IF market_id \in DOMAIN markets
    THEN { markets[market_id].outcomes[i].odds : i \in
             { j \in 1..Len(markets[market_id].outcomes) :
                 OutcomeNameTest(name_test, markets[market_id].outcomes[j].name) } } \ {0}
    ELSE {}

\* an odds request has returned a JSON object and generate_predictions holds it
OddsInHand ==
    pc = "response" /\ endpoint.kind = "markets" /\ response.kind = "dict" /\ ~NoData(response)

\* C2: a market outcome becomes a candidate only if 1.10 <= odds <= 10.0, both
\* limits included, so every leg stored in the coupon has odds within [1.10, 10.0]
C2_OddsWithinRange ==
    /\ \A i \in 1..Len(predictions) :
          110 <= predictions[i][2].odds /\ predictions[i][2].odds <= 1000
    /\ OddsInHand =>
          LET markets == response.data
              results == RuleResults(markets)
          IN /\ \A i \in 1..Len(results) :
                   results[i] # NoPrediction => 110 <= results[i].odds /\ results[i].odds <= 1000
             \* the limits themselves are accepted (market 19, both teams to score)
             /\ ("19" \in DOMAIN markets /\ MarketHasBtts(markets["19"].name))
                   => (results[4] # NoPrediction
                         <=> \E o \in NamedOutcomes(markets, "19", "yes") : 110 <= o /\ o <= 1000)
             /\ ("17" \in DOMAIN markets /\ MarketHasTotal(markets["17"].name) /\ "99" \notin DOMAIN markets)
                   => (results[1] # NoPrediction
                         <=> \E o \in NamedOutcomes(markets, "17", "under 3.5") : 110 <= o /\ o <= 1000)

\* a coupon that holds a leg at each limit, 1.10 and 10.0
C2_Witness ==
    /\ GenerationFinished
    /\ \E i \in 1..Len(predictions) : predictions[i][2].odds = 110
    /\ \E i \in 1..Len(predictions) : predictions[i][2].odds = 1000

----------------------------------------------------------------------------
(* The choice of one leg per match *)

\* the response logged for the odds request of match id (the ids of the selected
\* matches are distinct)
HasOddsLog(id) == \E i \in 1..Len(odds_log) : odds_log[i][1] = id
OddsLogOf(id) == odds_log[CHOOSE i \in 1..Len(odds_log) : odds_log[i][1] = id][2]

\* the markets from which the leg at position k of the coupon was chosen
LegMarkets(k) == OddsLogOf(predictions[k][1]).data

\* the candidates of the leg at position k, in the order of the rules
LegCandidates(k) == CollectPredictions(LegMarkets(k), predictions[k][2].league_name)

\* the labels of the legs stored before the leg at position k
EarlierLabels(k) == { predictions[j][2].type : j \in 1..(k - 1) }

\* the first result in rule order that is not None
FirstRuleResult(markets) ==
    LET results == RuleResults(markets)
    IN results[CHOOSE i \in 1..Len(results) :
                  results[i] # NoPrediction /\ \A j \in 1..(i - 1) : results[j] = NoPrediction]

\* the position in P of the candidate of highest confidence, the earliest in rule
\* order among equals
Preferred(cands, P) ==
    CHOOSE i \in P : \A j \in P :
        \/ cands[j].confidence < cands[i].confidence
        \/ cands[j].confidence = cands[i].confidence /\ i <= j

SameCandidate(leg, c) ==
    leg.type = c.type /\ leg.odds = c.odds /\ leg.confidence = c.confidence

\* C3 as stated: the prediction chosen for a match is the result of the first rule,
\* in the order under 3.5, over 1.5, over 2.5, both teams to score, home win, away
\* win, 1X, X2, that returns a candidate
C3_FirstNonNullRuleIsChosen ==
    \A k \in 1..Len(predictions) :
        predictions[k][2].type = FirstRuleResult(LegMarkets(k)).type

\* C3 amended: the rules are evaluated in the fixed order and every candidate they
\* return is kept; the prediction chosen for a match is the candidate of highest
\* confidence (the earliest in rule order among equals) among those whose label no
\* earlier leg carries; when every label is carried already it is the under 3.5
\* candidate in a low-scoring league that has one, else the candidate of highest
\* confidence
C3_HighestConfidenceUnusedIsChosen ==
    \A k \in 1..Len(predictions) :
        LET leg == predictions[k][2]
            cands == LegCandidates(k)
            all == 1..Len(cands)
            fresh == { i \in all : cands[i].type \notin EarlierLabels(k) }
            under == { i \in all : cands[i].type = "-3.5 buts" }
        IN /\ cands # <<>>
           /\ IF fresh # {}
              THEN SameCandidate(leg, cands[Preferred(cands, fresh)])
              ELSE IF is_low_scoring_league(leg.league_name) /\ under # {}
              THEN leg.type = "-3.5 buts"
              ELSE SameCandidate(leg, cands[Preferred(cands, all)])

\* a finished coupon whose first leg is not the result of the first rule that
\* returned a candidate, but a candidate of higher confidence
C3_Witness ==
    /\ pc = "send"
    /\ predictions # <<>>
    /\ LET leg == predictions[1][2]
           first == calculate_prediction_confidence(FirstRuleResult(LegMarkets(1)), leg.league_name)
       IN leg.type # first.type /\ leg.confidence > first.confidence

\* the labels of the in-range candidates of the match of the leg at position k
CandidateLabels(k) ==
    { r.type : r \in { x \in Range(RuleResults(LegMarkets(k))) :
                          x # NoPrediction /\ 110 <= x.odds /\ x.odds <= 1000 } }

\* C4: a leg carries a label an earlier leg of the coupon carries only if every
\* in-range candidate of its match carries such a label; when a candidate of the
\* match has an unused label, the label of the leg is an unused one
C4_UsedLabelOnlyWithoutAlternative ==
    \A k \in 1..Len(predictions) :
        \E labels \in {CandidateLabels(k)} :
            LET label == predictions[k][2].type
            IN /\ label \in labels
               /\ label \in EarlierLabels(k) => labels \subseteq EarlierLabels(k)
               /\ labels \ EarlierLabels(k) # {} => label \notin EarlierLabels(k)

\* a finished coupon with a leg that repeats a label for want of another and a leg
\* that left its candidate of highest confidence because the label was used
C4_Witness ==
    /\ pc = "send"
    /\ \E k \in 1..Len(predictions) : predictions[k][2].type \in EarlierLabels(k)
    /\ \E k \in 1..Len(predictions) :
          LET cands == LegCandidates(k)
              best == cands[Preferred(cands, 1..Len(cands))]
          IN best.type \in EarlierLabels(k) /\ predictions[k][2].type \notin EarlierLabels(k)

\* the selected matches generate_predictions has been through
ProcessedMatches == { selected_matches[i] : i \in 1..match_idx }

\* valid team names, an odds snapshot that is not empty, at least one candidate
Qualifies(match) ==
    /\ is_valid_team_name(match.home_team)
    /\ is_valid_team_name(match.away_team)
    /\ HasOddsLog(match.id)
    /\ LET resp == OddsLogOf(match.id)
       IN /\ resp.kind = "dict"
          /\ resp.status = "success"
          /\ DOMAIN resp.data # {}
          /\ \E r \in Range(RuleResults(resp.data)) : r # NoPrediction

\* C5: the coupon holds exactly one leg, a candidate of the match with its label,
\* odds and confidence, for every selected match that has valid team names, an odds
\* snapshot that is not empty and at least one candidate, and no leg for another
\* match; the match_id of a leg is the key it is stored under
C5_OneLegPerQualifyingMatch ==
    /\ DictKeys(predictions) = { m.id : m \in { x \in ProcessedMatches : Qualifies(x) } }
    /\ Cardinality(DictKeys(predictions)) = Len(predictions)
    /\ GenerationFinished => match_idx = Len(selected_matches)
    /\ \A k \in 1..Len(predictions) :
          LET leg == predictions[k][2]
          IN /\ leg.match_id = predictions[k][1]
             /\ \E r \in Range(RuleResults(LegMarkets(k))) :
                   /\ r # NoPrediction
                   /\ SameCandidate(leg, calculate_prediction_confidence(r, leg.league_name))

\* a finished coupon over at least three selected matches, some with a leg and
\* some without
C5_Witness ==
    /\ pc = "send"
    /\ Len(selected_matches) >= 3
    /\ Len(predictions) >= 2
    /\ Len(predictions) < Len(selected_matches)
    /\ \E i \in 1..Len(odds_log) : odds_log[i][2].status = "error" /\ DOMAIN odds_log[i][2].data # {}

----------------------------------------------------------------------------
(* make_api_request *)

C6_Attempts ==
    /\ attempt <= 3
    /\ pc = "request" => attempt < 3 /\ sleeps = 2 * attempt
    /\ pc = "response" =>
          IF response.kind = "None"
          THEN attempt = 3 /\ sleeps = 2 * 2
          ELSE attempt >= 1 /\ sleeps = 2 * (attempt - 1)

C6_Step ==
    /\ pc = "request" =>
          \/ pc' = "request" /\ attempt' \in {attempt, attempt + 1}
          \/ pc' = "response" /\ attempt' = attempt + 1
    /\ pc = "response" => attempt' \in {attempt, 0}

\* C6: make_api_request makes at most 3 attempts for one endpoint; it returns the
\* body at the first attempt answered with status 200 and makes no attempt after
\* it; it waits 2 seconds after each failed attempt except the last; it returns
\* None after 3 failed attempts; no exception leaves it
C6_BoundedRetries == []C6_Attempts /\ [][C6_Step]_vars

\* a call that returned None: three failed attempts and two waits of 2 seconds
C6_Witness ==
    pc = "response" /\ response.kind = "None" /\ attempt = 3 /\ sleeps = 4

----------------------------------------------------------------------------
(* Failed responses *)

\* make_api_request returned None, or a JSON object whose "status" is not "success"
Failed(resp) == resp.kind = "None" \/ resp.status # "success"

\* the matches get_todays_matches keeps from the responses of log
RECURSIVE MatchesOf(_)
MatchesOf(log) ==
    IF log = <<>> THEN <<>>
    ELSE SelectSeq(Head(log).data, KeepMatch) \o MatchesOf(Tail(log))

SelectedMatch(id) ==
    selected_matches[CHOOSE i \in 1..Len(selected_matches) : selected_matches[i].id = id]

\* the coupon generate_predictions builds from the odds responses of log
RECURSIVE LegsOf(_, _, _)
LegsOf(log, used, preds) ==
    IF log = <<>> THEN [used |-> used, predictions |-> preds]
    ELSE LET match == SelectedMatch(Head(log)[1])
             all_predictions == Candidates(Head(log)[2], match)
         IN IF all_predictions = <<>> THEN LegsOf(Tail(log), used, preds)
            ELSE LET chosen == ChoosePrediction(all_predictions, used, match.league)
                 IN LegsOf(Tail(log), chosen.used,
                           DictSet(preds, match.id, Leg(chosen.prediction, match)))

----------------------------------------------------------------------------
(* The order of the steps of one run *)

SelectedIds == { selected_matches[i].id : i \in 1..Len(selected_matches) }

RequestInProgress(kind) == pc \in {"request", "response"} /\ endpoint.kind = kind

\* C8: in one run the league requests come first, then the selection, then the
\* odds requests, then the send; an odds request is for a match selected in this
\* run; the message is sent after the last odds request of the run
C8_StepsInOrder ==
    /\ RequestInProgress("matches") =>
          /\ Len(league_log) < NumLeagues
          /\ selected_matches = <<>> /\ odds_log = <<>> /\ sent = <<>>
    /\ selected_matches # <<>> => Len(league_log) = NumLeagues
    /\ RequestInProgress("markets") =>
          /\ Len(league_log) = NumLeagues
          /\ endpoint.id \in SelectedIds
          /\ sent = <<>>
    /\ \A i \in 1..Len(odds_log) : odds_log[i][1] = selected_matches[i].id
    /\ (pc = "send" \/ sent # <<>>) =>
          /\ Len(odds_log) = Len(selected_matches)
          /\ Len(league_log) = NumLeagues
          /\ endpoint = NoEndpoint
          /\ Len(sent) <= 1

\* a run that sent its message after the league requests and two odds requests
C8_Witness ==
    /\ sent # <<>>
    /\ Len(league_log) = NumLeagues
    /\ Len(odds_log) >= 2
    /\ \E i \in 1..Len(sent[1].message) : sent[1].message[i].kind = "leg"

----------------------------------------------------------------------------
(* schedule_daily_job *)

\* C9 as stated: the job runs once at startup, before the daily trigger is
\* registered, then for each trigger, and the scheduling loop never exits,
\* whatever the outcome of a run
C9_SchedulingLoopNeverExits ==
    /\ registered => runs >= 1
    /\ pc # "exited"

C10_RunStarts == runs' # runs => active = 0 /\ active' = 1

\* C10: at most one run of the prediction job is in progress at any time; a
\* trigger that comes due while a run waits for the network starts no run before
\* that run has returned
C10_OneRunAtATime == [](active <= 1) /\ [][C10_RunStarts]_vars

\* a trigger is due while a scheduled run waits for an answer of the API
C10_Witness ==
    active = 1 /\ due /\ pc = "request" /\ caller = "scheduled"

----------------------------------------------------------------------------
(* The state a run starts from *)

C11_RunStartsClean ==
    runs' # runs =>
        selected_matches' = <<>> /\ predictions' = <<>> /\ coupon_total_odds' = 100

C11_OnlyLatestRun ==
    /\ \A i \in 1..Len(selected_matches) :
          \E j \in 1..Len(all_matches) : all_matches[j] = selected_matches[i]
    /\ DictKeys(predictions) \subseteq (SelectedIds \cap { odds_log[i][1] : i \in 1..Len(odds_log) })
    /\ \A k \in 1..Len(predictions) :
          \E r \in Range(RuleResults(LegMarkets(k))) :
              r.type = predictions[k][2].type /\ r.odds = predictions[k][2].odds
    /\ (runs >= 1 /\ selected_matches = <<>>) => predictions = <<>> /\ coupon_total_odds = 100

\* C11: every run starts from selected_matches = [], predictions = {} and
\* coupon_total_odds = 1.0; the coupon holds only legs for matches selected in the
\* latest run, with a label and odds of that run's odds responses, and it is empty
\* with total 1.0 when the latest run found no match
C11_RunsStartFromScratch == []C11_OnlyLatestRun /\ [][C11_RunStartsClean]_vars

\* a second run has returned having found no match: the coupon is empty
C11_Witness ==
    /\ runs = 2 /\ pc = "loop" /\ active = 0
    /\ Len(league_log) = NumLeagues
    /\ all_matches = <<>>
    /\ predictions = <<>> /\ coupon_total_odds = 100

----------------------------------------------------------------------------
(* Construction *)

RequiredNames == {"RAPIDAPI_KEY", "TELEGRAM_BOT_TOKEN", "TELEGRAM_CHANNEL_ID"}

\* the required names that are unset or empty
MissingNames == { n \in RequiredNames : env[n] = Unset \/ env[n] = "" }

\* C12: constructing the bot fails with EnvironmentError exactly when one of
\* RAPIDAPI_KEY, TELEGRAM_BOT_TOKEN, TELEGRAM_CHANNEL_ID is unset or empty; the
\* message names exactly the missing ones; then no run, request or registration
\* happens; RAPIDAPI_HOST is optional and defaults to a fixed host
C12_ConstructionChecksEnvironment ==
    /\ pc # "construct" =>
          /\ Range(error_msg) = MissingNames
          /\ Len(error_msg) = Cardinality(MissingNames)
    /\ MissingNames # {} =>
          /\ pc \in {"construct", "exited"}
          /\ runs = 0 /\ active = 0 /\ ~registered /\ ~due
          /\ endpoint = NoEndpoint /\ attempt = 0 /\ sent = <<>>
    /\ (MissingNames = {} /\ pc # "construct") =>
          /\ pc = "exited" => runs >= 1
          /\ rapidapi_host = IF env["RAPIDAPI_HOST"] = Unset THEN "1xbet-api.p.rapidapi.com"
                             ELSE env["RAPIDAPI_HOST"]

\* the construction failed and named two missing names, one unset and one empty,
\* while RAPIDAPI_HOST was not set
C12_Witness ==
    /\ pc = "exited" /\ runs = 0
    /\ error_msg = <<"RAPIDAPI_KEY", "TELEGRAM_CHANNEL_ID">>
    /\ env["RAPIDAPI_KEY"] = "" /\ env["TELEGRAM_CHANNEL_ID"] = Unset
    /\ env["RAPIDAPI_HOST"] = Unset

----------------------------------------------------------------------------
(* The order of the coupon *)

\* the position in selected_matches of the match with this id
SelectedPosition(id) ==
    CHOOSE i \in 1..Len(selected_matches) : selected_matches[i].id = id

\* 1 for a low-scoring league, 2 for a medium one, 3 for a high-scoring one
CategoryRank(league_name) ==
    IF is_low_scoring_league(league_name) THEN 1
    ELSE IF is_high_scoring_league(league_name) THEN 3
    ELSE 2

\* part is the text of this leg
ShowsLeg(part, leg) ==
    /\ part.kind = "leg"
    /\ part.league_name = leg.league_name
    /\ part.home_team = leg.home_team /\ part.away_team = leg.away_team
    /\ part.start_timestamp = leg.start_timestamp
    /\ part.type = leg.type /\ part.odds = leg.odds

\* C13: the legs are in self.predictions, and in the message, in the order of
\* their matches in selected_matches, low-scoring picks first, then medium, then
\* high, each leg once, and the message ends with the total odds (and the advice)
C13_CouponOrder ==
    /\ \A i \in 1..Len(selected_matches) : \A j \in (i + 1)..Len(selected_matches) :
          CategoryRank(selected_matches[i].league) <= CategoryRank(selected_matches[j].league)
    /\ \A k \in 1..Len(predictions) : \A l \in (k + 1)..Len(predictions) :
          /\ SelectedPosition(predictions[k][1]) < SelectedPosition(predictions[l][1])
          /\ CategoryRank(predictions[k][2].league_name) <= CategoryRank(predictions[l][2].league_name)
    /\ \A s \in 1..Len(sent) :
          LET message == sent[s].message
              n == Len(predictions)
          IN IF n = 0
             THEN \A i \in 1..Len(message) : message[i].kind \notin {"leg", "total"}
             ELSE /\ Len(message) = n + 3
                  /\ \A k \in 1..n : ShowsLeg(message[k + 1], predictions[k][2])
                  /\ message[n + 2].kind = "total"
                  /\ message[n + 2].odds = coupon_total_odds

\* a message was posted with legs of two categories, for a selection in which a
\* match between two matches that got a leg got none
C13_Witness ==
    /\ sent # <<>>
    /\ Len(predictions) >= 2
    /\ \E k \in 1..Len(predictions) :
          CategoryRank(predictions[k][2].league_name) # CategoryRank(predictions[1][2].league_name)
    /\ \E k \in 1..(Len(predictions) - 1) :
          SelectedPosition(predictions[k + 1][1]) > SelectedPosition(predictions[k][1]) + 1

----------------------------------------------------------------------------
(* The confidence of a candidate *)

GoalsUp == {"+1.5 buts", "+2.5 buts", "Les 2 marquent"}

\* the league factor, in millionths, as the table of the adjustment gives it
TableFactor(label, profile) ==
    CASE profile = "low" /\ label = "-3.5 buts" -> 1150000
      [] profile = "low" /\ label \in GoalsUp -> 850000
      [] profile = "high" /\ label = "-3.5 buts" -> 850000
      [] profile = "high" /\ label \in GoalsUp -> 1150000
      [] OTHER -> 1000000

\* 0.4 * raw_confidence + 0.3 * factor + 0.3 * stability, in millionths
WeightedSum(c, league_name) ==
    (4 * c.raw_confidence
       + 3 * TableFactor(c.type, get_league_scoring_profile(league_name))
       + 3 * c.stability) \div 10

ModelledLeagues == { m.league : m \in {m101, m102, m103, m104, m105} }

FactorsFollowTable ==
    \A label \in PredictionTypes : \A league_name \in ModelledLeagues :
        league_factor(label, league_name)
            = TableFactor(label, get_league_scoring_profile(league_name))

\* the candidates in hand: those of the odds response being handled and the legs
CandidatesInHand ==
    { <<predictions[k][2], predictions[k][2].league_name>> : k \in 1..Len(predictions) }
      \cup (IF OddsInHand
            THEN { <<c, selected_matches[match_idx + 1].league>> :
                     c \in Range(CollectPredictions(response.data, selected_matches[match_idx + 1].league)) }
            ELSE {})

\* C14 as stated: the league factor follows the table and the confidence of a
\* candidate is 0.4*raw_confidence + 0.3*factor + 0.3*stability
C14_ConfidenceIsWeightedSum ==
    /\ FactorsFollowTable
    /\ \A x \in CandidatesInHand : x[1].confidence = WeightedSum(x[1], x[2])

\* C14 amended: the league factor follows the table and the confidence of a
\* candidate is min(0.98, 0.4*raw_confidence + 0.3*factor + 0.3*stability)
C14_ConfidenceIsCappedWeightedSum ==
    /\ FactorsFollowTable
    /\ \A x \in CandidatesInHand : x[1].confidence = Min(980000, WeightedSum(x[1], x[2]))

\* a finished coupon with a leg whose weighted sum exceeds 0.98 and a leg below
\* 0.98 whose league factor is not 1.0
C14_Witness ==
    /\ pc = "send"
    /\ \E k \in 1..Len(predictions) :
          WeightedSum(predictions[k][2], predictions[k][2].league_name) > 980000
    /\ \E k \in 1..Len(predictions) :
          LET leg == predictions[k][2]
          IN /\ leg.confidence < 980000
             /\ TableFactor(leg.type, get_league_scoring_profile(leg.league_name)) # 1000000

----------------------------------------------------------------------------
(* select_matches *)

\* the matches of s that are in the category of rank r
OfRank(s, r) == SelectSeq(s, LAMBDA m : CategoryRank(m.league) = r)

\* C15 as stated: select_matches selects exactly min(5, number of available
\* matches) matches, whatever their distribution over the categories
C15_SelectsFiveOrAll ==
    pc = "selected" => Len(selected_matches) = Min(5, Len(all_matches))

\* max(1, round(0.6 * M)) and max(1, round(0.3 * M)) for M = 1..5: round gives
\* 1, 1, 2, 2, 3 for 0.6, 1.2, 1.8, 2.4, 3.0 and 0, 1, 1, 1, 2 for 0.3, 0.6, 0.9, 1.2, 1.5
InitialLowQuota == <<1, 1, 2, 2, 3>>
InitialMediumQuota == <<1, 1, 1, 1, 2>>

\* C16: with M = min(5, number of available matches) the initial quotas are
\* max(1, round(0.6*M)) for low, max(1, round(0.3*M)) for medium and the remainder
\* M - low - medium for high; they sum to M; the low picks come first, then the
\* medium ones, then the high ones; each quota is taken in full when its category
\* holds enough matches
C16_InitialQuotasTakenInFull ==
    (pc = "selected" /\ all_matches # <<>>) =>
        LET M == Min(5, Len(all_matches))
            low == InitialLowQuota[M]
            medium == InitialMediumQuota[M]
            high == M - low - medium
        IN /\ low + medium + high = M
           /\ selected_matches = OfRank(selected_matches, 1) \o OfRank(selected_matches, 2)
                                   \o OfRank(selected_matches, 3)
           /\ Len(OfRank(selected_matches, 1)) = Min(low, Len(OfRank(all_matches, 1)))
           /\ Len(OfRank(all_matches, 2)) >= medium => Len(OfRank(selected_matches, 2)) >= medium
           /\ Len(OfRank(all_matches, 3)) >= high => Len(OfRank(selected_matches, 3)) >= high

\* five matches selected, 3 low and 2 medium, from a list that holds more matches
\* than that in every category
C16_Witness ==
    /\ pc = "selected"
    /\ Len(OfRank(selected_matches, 1)) = 3 /\ Len(OfRank(all_matches, 1)) > 3
    /\ Len(OfRank(selected_matches, 2)) = 2 /\ Len(OfRank(all_matches, 2)) > 2
    /\ Len(OfRank(selected_matches, 3)) = 0 /\ Len(OfRank(all_matches, 3)) > 0

\* the three categories of a list, in the order low, medium, high
CategoriesOf(matches) ==
    <<low_scoring_matches(matches), medium_scoring_matches(matches), high_scoring_matches(matches)>>

QuotasOf(matches) ==
    <<MatchQuotas(matches).low, MatchQuotas(matches).medium, MatchQuotas(matches).high>>

\* C17: for every non-empty list of available matches, whatever its distribution
\* over the categories, the number asked of random.sample for a category is
\* neither negative nor larger than the category (so sampling does not raise and
\* select_matches returns), at most min(5, n) matches are selected, every
\* selected match is a match of the list, and no match of the list is selected twice
C17_SelectionIsSafe ==
    all_matches # <<>> =>
        /\ \A r \in 1..3 :
              LET category == CategoriesOf(all_matches)[r]
                  quota == QuotasOf(all_matches)[r]
              IN category # <<>> => /\ quota >= 0
                                    /\ Min(quota, Len(category)) \in 0..Len(category)
        /\ ~SelectRaises(all_matches)
        /\ pc # "exited"
        /\ pc = "selected" =>
              /\ Len(selected_matches) <= Min(5, Len(all_matches))
              /\ \A i \in 1..Len(selected_matches) :
                    \E j \in 1..Len(all_matches) : selected_matches[i] = all_matches[j]
              /\ \A i, j \in 1..Len(selected_matches) :
                    i # j => selected_matches[i].id # selected_matches[j].id

\* five matches selected from a longer list whose low category is smaller than
\* its initial quota
C17_Witness ==
    /\ pc = "selected"
    /\ Len(all_matches) > 5
    /\ Len(OfRank(all_matches, 1)) = 1
    /\ Len(selected_matches) = 5

----------------------------------------------------------------------------
(* The order of the candidates and the record of the labels *)

\* the position of the candidate labelled label in the order of the rules
RulePosition(markets, league_name, label) ==
    LET rule == CollectPredictions(markets, league_name)
    IN CHOOSE i \in 1..Len(rule) : rule[i].type = label

\* the list returned by generate_match_predictions holds the candidates of the
\* rules, each once, by decreasing confidence and, among equals, in rule order
SortedCandidates(markets, league_name) ==
    LET rule == CollectPredictions(markets, league_name)
        sorted == generate_match_predictions(markets, league_name)
    IN /\ Len(sorted) = Len(rule)
       /\ Range(sorted) = Range(rule)
       /\ \A i, j \in 1..Len(sorted) :
             i < j => \/ sorted[i].confidence > sorted[j].confidence
                      \/ /\ sorted[i].confidence = sorted[j].confidence
                         /\ RulePosition(markets, league_name, sorted[i].type)
                              < RulePosition(markets, league_name, sorted[j].type)

\* a step of generate_predictions that stores a leg while a candidate of the
\* match carries a label that is not in used_prediction_types: the leg is the
\* candidate of highest confidence among those, and its label is recorded
C18_StoresBestUnused ==
    (OddsInHand /\ Len(predictions') = Len(predictions) + 1) =>
        LET match == selected_matches[match_idx + 1]
            cands == CollectPredictions(response.data, match.league)
            fresh == { i \in 1..Len(cands) : cands[i].type \notin Range(used_prediction_types) }
            leg == predictions'[Len(predictions')][2]
        IN fresh # {} =>
              /\ SameCandidate(leg, cands[Preferred(cands, fresh)])
              /\ used_prediction_types' = Append(used_prediction_types, leg.type)

\* C18: generate_match_predictions returns the candidates sorted by decreasing
\* confidence, candidates of equal confidence keeping the order of the rules;
\* generate_predictions chooses the candidate of highest confidence among those
\* whose label is not yet used in the coupon and records that label as used, so
\* the recorded labels are the labels of the legs
C18_SortedAndBestUnusedRecorded ==
    /\ [](OddsInHand => SortedCandidates(response.data, selected_matches[match_idx + 1].league))
    /\ []({ predictions[i][2].type : i \in 1..Len(predictions) } = Range(used_prediction_types))
    /\ [][C18_StoresBestUnused]_vars

\* a finished coupon of two legs with both labels recorded: the first leg is the
\* earlier in rule order of two candidates of equal confidence, the second one is
\* for a match whose candidate of highest confidence carried the label of the first
C18_Witness ==
    /\ pc = "send"
    /\ Len(predictions) = 2
    /\ used_prediction_types = <<predictions[1][2].type, predictions[2][2].type>>
    /\ predictions[1][2].type # predictions[2][2].type
    /\ LET cands == LegCandidates(1)
       IN /\ Len(cands) = 2
          /\ cands[1].confidence = cands[2].confidence
          /\ predictions[1][2].type = cands[1].type
    /\ LET cands == LegCandidates(2)
       IN cands[Preferred(cands, 1..Len(cands))].type = predictions[1][2].type

----------------------------------------------------------------------------
(* The repeat of a label *)

\* the candidates of the match in hand whose odds are within the accepted range,
\* in the order of the rules
InRangeCandidates ==
    SelectSeq(CollectPredictions(response.data, selected_matches[match_idx + 1].league),
              LAMBDA c : min_odds <= c.odds /\ c.odds <= max_odds)

\* a step of generate_predictions that leaves a match whose odds are in hand
C19_StoresRepeat ==
    (OddsInHand /\ pc' = "matches") =>
        LET match == selected_matches[match_idx + 1]
            cands == InRangeCandidates
            under == { i \in 1..Len(cands) : cands[i].type = "-3.5 buts" }
        IN cands # <<>> =>
              /\ Len(predictions') = Len(predictions) + 1
              /\ predictions'[Len(predictions')][1] = match.id
              /\ (\A i \in 1..Len(cands) : cands[i].type \in Range(used_prediction_types)) =>
                    LET leg == predictions'[Len(predictions')][2]
                    IN /\ used_prediction_types' = used_prediction_types
                       /\ IF is_low_scoring_league(match.league) /\ under # {}
                          THEN \E i \in under : SameCandidate(leg, cands[i])
                          ELSE SameCandidate(leg, cands[Preferred(cands, 1..Len(cands))])

\* C19: when the label of every candidate of a match is used already, the under
\* 3.5 candidate is chosen as a repeat if the league is low-scoring and the match
\* has one, otherwise the candidate of highest confidence is chosen although its
\* label is used; a match with at least one in-range candidate always gets a leg
C19_RepeatRatherThanNoLeg == [][C19_StoresRepeat]_vars

\* a finished coupon with a repeated under 3.5 leg, in a low-scoring league, for a
\* match whose candidate of highest confidence was another one, and with a leg that
\* repeats the candidate of highest confidence of a match of another league that
\* had an under 3.5 candidate too
C19_Witness ==
    /\ pc = "send"
    /\ \E k \in 1..Len(predictions) :
          LET cands == LegCandidates(k)
          IN /\ \A i \in 1..Len(cands) : cands[i].type \in EarlierLabels(k)
             /\ is_low_scoring_league(predictions[k][2].league_name)
             /\ predictions[k][2].type = "-3.5 buts"
             /\ cands[Preferred(cands, 1..Len(cands))].type # "-3.5 buts"
    /\ \E k \in 1..Len(predictions) :
          LET cands == LegCandidates(k)
          IN /\ \A i \in 1..Len(cands) : cands[i].type \in EarlierLabels(k)
             /\ ~is_low_scoring_league(predictions[k][2].league_name)
             /\ \E i \in 1..Len(cands) : cands[i].type = "-3.5 buts"
             /\ predictions[k][2].type = cands[Preferred(cands, 1..Len(cands))].type
             /\ predictions[k][2].type # "-3.5 buts"

----------------------------------------------------------------------------
(* The message of a run *)

\* no run is in progress and at least one has been started
RunIsOver == runs >= 1 /\ active = 0

\* C20: in one run exactly one message is posted if at least one match was
\* selected (the coupon when it has legs, the fixed "no prediction" text when it
\* has none) and none if no match was found or selected; the POST is attempted
\* once, and send_to_telegram returns True exactly when the status is 200 and
\* False on another status or on an exception
C20_OneMessagePerRun ==
    /\ Len(sent) <= 1
    /\ sent # <<>> =>
          /\ selected_matches # <<>>
          /\ sent[1].message = format_prediction_message(predictions, coupon_total_odds)
          /\ IF predictions = <<>>
             THEN sent[1].message[Len(sent[1].message)].kind = "no prediction"
             ELSE { i \in 1..Len(sent[1].message) : sent[1].message[i].kind = "leg" }
                    = 2..(Len(predictions) + 1)
          /\ sent[1].result = (sent[1].outcome = "200")
          /\ sent[1].outcome \in {"status", "exception"} => pc # "exited"
    /\ RunIsOver => (Len(sent) = 1 <=> selected_matches # <<>>)

----------------------------------------------------------------------------
(* The matches get_todays_matches returns *)

\* a valid team name: not empty, not a placeholder name once stripped, at least 3
\* characters once stripped
ValidName(name) ==
    /\ name # <<>>
    /\ strip(name) \notin { <<"h","o","m","e">>, <<"a","w","a","y">>, <<"1">>, <<"2">>, <<"X">> }
    /\ Len(strip(name)) >= 3

\* the other conditions of a returned match: later than now, the four members not
\* empty, two valid team names
FutureAndComplete(m) ==
    /\ m.start_timestamp > now_timestamp
    /\ m.id # 0 /\ m.league # "" /\ m.home_team # <<>> /\ m.away_team # <<>>
    /\ ValidName(m.home_team) /\ ValidName(m.away_team)

\* C21: every match get_todays_matches returns starts within 00:00:00..23:59:59 of
\* today, both limits included, and later than now, has a non-empty id, league,
\* home team and away team and two valid team names, whatever zone object the
\* build carries; a match failing one of these conditions is never returned
C21_ReturnedMatchesAreOfToday ==
    \A tz \in TimezoneBuilds :
        \A i \in 1..Len(all_matches) :
            /\ local_day_start(tz) <= all_matches[i].start_timestamp
            /\ all_matches[i].start_timestamp <= local_day_end(tz)
            /\ FutureAndComplete(all_matches[i])

----------------------------------------------------------------------------
(* Several outcomes for one label *)

\* the in-range odds of the outcomes called name in one market, as encountered
Encountered(markets, market_id, name) ==
    IF market_id \in DOMAIN markets
    THEN LET hits == SelectSeq(markets[market_id].outcomes,
                               LAMBDA o : o.name = name /\ 110 <= o.odds /\ o.odds <= 1000)
         IN [i \in 1..Len(hits) |-> hits[i].odds]
    ELSE <<>>

\* the odds closest to average, the first encountered among the closest
FirstClosest(odds, average) ==
    odds[CHOOSE i \in 1..Len(odds) :
            /\ \A j \in 1..Len(odds) : Abs(odds[i] - average) <= Abs(odds[j] - average)
            /\ \A j \in 1..(i - 1) : Abs(odds[i] - average) < Abs(odds[j] - average)]

\* what a rule is said to return for the odds it encountered
ReturnsFirstClosest(result, odds, average) ==
    IF odds = <<>> THEN result = NoPrediction
    ELSE result # NoPrediction /\ result.odds = FirstClosest(odds, average)

\* C22: a goals or double-chance rule that finds several in-range outcomes for its
\* label returns the one whose odds are closest to the expected average odds of the
\* rule, the first one encountered on a tie (for under 3.5 the outcomes of market
\* 17 come before those of market 99), and returns None exactly when there is no
\* in-range outcome
C22_ClosestToAverageOrNone ==
    OddsInHand =>
        LET markets == response.data
            results == RuleResults(markets)
        IN /\ ReturnsFirstClosest(results[1], Encountered(markets, "17", "Under 3.5")
                                                \o Encountered(markets, "99", "Under 3.5"), 185)
           /\ ReturnsFirstClosest(results[2], Encountered(markets, "17", "Over 1.5"), 107)
           /\ ReturnsFirstClosest(results[3], Encountered(markets, "17", "Over 2.5"), 132)
           /\ ReturnsFirstClosest(results[7], Encountered(markets, "8", "1X"), 140)
           /\ ReturnsFirstClosest(results[8], Encountered(markets, "8", "X2"), 160)

====
